---- MODULE Spec2Model ----
(***************************************************************************)
(* node-flow: a browser editor for tabular data pipelines.                 *)
(*                                                                         *)
(* The module models                                                       *)
(*   - the undo/redo history hook  (src/hooks/useUndoRedo.ts),             *)
(*   - the canvas that drives it   (src/components/FlowCanvas.tsx) and     *)
(*     the owner of the tabs       (src/App.tsx),                          *)
(*   - the table store             (src/context/TableManagementContext.tsx)*)
(*     over the local-storage adapter (services/LocalStorageDataService).  *)
(*                                                                         *)
(* React state is modelled at the granularity of one event handler or one  *)
(* timer callback: an action is the handler, the render that follows it    *)
(* and the effects of that render.  Inside an action the unprimed          *)
(* variables are what the handler's closure captured at the last render.   *)
(***************************************************************************)
EXTENDS Integers, Sequences, FiniteSets, TLC

VARIABLES
    \* ---- useUndoRedo ----
    history,            \* useState<FlowState[]>        (1-based here)
    currentIndex,       \* useState(0)                  (0-based, as in the code)
    isUndoRedoAction,   \* useRef(false)
    resetTimers,        \* pending setTimeout(..., 100) callbacks of undo/redo
    \* ---- observers of the hook's caller (not program state) ----
    nextSnap,           \* number of saveState calls accepted so far
    navCalls,           \* number of undo/redo/clearHistory calls issued so far
    run,                \* accepted saveState calls since the last other call
    lastOps,            \* the last calls, newest last: [op, snap, ok]
    \* ---- TableManagementProvider ----
    tableData,          \* useState<TableData[]>
    schema,             \* useState<DatabaseSchema>
    isLoading,          \* useState(true)
    \* ---- LocalStorageDataService ----
    stored,             \* the localStorage item 'table-management-data'
    \* ---- environment and observers of the store's callers ----
    now,                \* Date.now()
    storeCalls,         \* number of store / import calls issued so far
    lastCall,           \* the last such call: [op, id, threw]
    imported,           \* an import has replaced or extended tableData
    \* ---- App ----
    tabs,               \* useState<FlowTab[]>
    activeTabId,        \* useState('tab-1')
    reading,            \* the import file being read: its document, or NoFile
    \* ---- FlowCanvas ----
    nodes,              \* useNodesState(initialNodes)
    edges,              \* useEdgesState(initialEdges)
    syncedN,            \* nodes is the very array the active tab holds
    syncedE,            \* edges is the very array the active tab holds
    isUndoRedoOperation,\* useRef(false)
    opTimers,           \* pending setTimeout(..., 100) callbacks of handleUndo/Redo
    nodesTimer,         \* the debounced nodes effect has a timeout pending
    edgesTimer,         \* the debounced edges effect has a timeout pending
    lastSavedState,     \* useRef<string>(''): <<>> or <<the state serialized>>
    \* ---- observer of the canvas's user (not program state) ----
    gestures,           \* number of user gestures on the canvas so far
    lastGesture,        \* the last of them: its handler's name
    lastCut,            \* edges the last handler took out of the active tab
    burst,              \* canvas changes since the last debounced callback
    freshTab,           \* a graph tab was switched to, no canvas gesture since
    \* ---- pure functions of the program, applied to drawn inputs ----
    applied             \* the last application: [fn, args, result]

hookVars  == <<history, currentIndex, isUndoRedoAction, resetTimers>>
obsVars   == <<nextSnap, navCalls, run, lastOps>>
storeVars == <<tableData, schema, isLoading, stored, now, storeCalls, lastCall, imported>>
appVars   == <<tabs, activeTabId, reading>>
canvasVars == <<nodes, edges, syncedN, syncedE, isUndoRedoOperation, opTimers,
                nodesTimer, edgesTimer, lastSavedState, gestures, lastGesture,
                lastCut, burst, freshTab>>
fnVars    == <<applied>>
vars      == <<hookVars, obsVars, storeVars, appVars, canvasVars, fnVars>>

\* ---- bounds of the model ----
MaxSaves == 52      \* saveState calls accepted from the hook's caller
MaxNav   == 2       \* undo / redo / clearHistory calls issued by the caller
OpsWindow == 5      \* calls remembered in lastOps
MaxStoreCalls == 3  \* store and import calls issued after the initial load
MaxClock == 2       \* values the millisecond clock takes

\* ---- program constants ----
MAX_HISTORY_SIZE == 50

Min(a, b) == IF a < b THEN a ELSE b
Max(a, b) == IF a > b THEN a ELSE b

\* Array.prototype.slice(0, k) for k >= 0
SliceTo(s, k) == SubSeq(s, 1, Min(k, Len(s)))
\* Array.prototype.slice(-m) for m > 0
SliceLast(s, m) == SubSeq(s, Max(Len(s) - m, 0) + 1, Len(s))

\* FlowState { nodes, edges }
FlowState(n, e) == [nodes |-> n, edges |-> e]
EmptyState == FlowState(<<>>, <<>>)

(***************************************************************************)
(* useUndoRedo                                                             *)
(***************************************************************************)

\* the updater passed to setHistory by saveState; closureIndex is the
\* currentIndex captured by the useCallback closure
SaveStateHistoryNoTruncate(prev, closureIndex, snap) ==
    LET updatedHistory == Append(prev, snap)
    IN  IF Len(updatedHistory) > MAX_HISTORY_SIZE
        THEN SliceLast(updatedHistory, MAX_HISTORY_SIZE)
        ELSE updatedHistory

SaveStateHistoryNoCap(prev, closureIndex, snap) ==
    Append(SliceTo(prev, closureIndex + 1), snap)

SaveStateHistory(prev, closureIndex, snap) ==
    LET newHistory     == SliceTo(prev, closureIndex + 1)
        updatedHistory == Append(newHistory, snap)
    IN  IF Len(updatedHistory) > MAX_HISTORY_SIZE
        THEN SliceLast(updatedHistory, MAX_HISTORY_SIZE)
        ELSE updatedHistory

\* the updater passed to setCurrentIndex by saveState
SaveStateIndexNoClamp(prev) == prev + 1

SaveStateIndex(prev) == Min(prev + 1, MAX_HISTORY_SIZE - 1)

\* the guard at the top of saveState
SaveSuppressedNever(flag) == FALSE

SaveSuppressed(flag) == flag

canUndo == currentIndex > 0
canRedo == currentIndex < Len(history) - 1

\* history[currentIndex] || { nodes: [], edges: [] }
StateAt(h, i) == IF i >= 0 /\ i < Len(h) THEN h[i + 1] ELSE EmptyState
getCurrentState == StateAt(history, currentIndex)

\* ---- the caller's log ----
Call(op, snap, ok) == [op |-> op, snap |-> snap, ok |-> ok]
Remember(c) ==
    LET all == Append(lastOps, c)
    IN  IF Len(all) > OpsWindow THEN Tail(all) ELSE all

\* the snapshot the k-th saveState call carries: one node named k, no edge
Snap(k) == FlowState(<<k>>, <<>>)

\* no function has been applied
NotApplied == [fn |-> "none"]

\* no file is being read by importFromJSON
NoFile == [kind |-> "none"]

\* a FlowTab: its id, its name and its graph (createdAt plays no part)
FlowTab(id, name, n, e) == [id |-> id, name |-> name, nodes |-> n, edges |-> e]

\* useState<FlowTab[]> of App: one empty tab
InitialTabs == <<FlowTab("tab-1", "Data Pipeline 1", <<>>, <<>>)>>

\* the canvas as it is before it has mounted
CanvasIdle ==
    /\ tabs = InitialTabs
    /\ activeTabId = "tab-1"
    /\ reading = NoFile
    /\ nodes = <<>>
    /\ edges = <<>>
    /\ syncedN = TRUE
    /\ syncedE = TRUE
    /\ isUndoRedoOperation = FALSE
    /\ opTimers = 0
    /\ nodesTimer = FALSE
    /\ edgesTimer = FALSE
    /\ lastSavedState = <<>>
    /\ gestures = 0
    /\ lastGesture = "none"
    /\ lastCut = {}
    /\ burst = 0
    /\ freshTab = FALSE
    /\ applied = NotApplied

\* the table store as it is before its provider has mounted
StoreIdle ==
    /\ tableData = <<>>
    /\ schema = [tables |-> <<>>, relationships |-> <<>>]
    /\ isLoading = TRUE
    /\ stored = [shape |-> "missing"]
    /\ now = 1
    /\ storeCalls = 0
    /\ lastCall = [op |-> "none", id |-> "", threw |-> FALSE]
    /\ imported = FALSE

HookInit ==
    /\ StoreIdle
    /\ CanvasIdle
    /\ history = <<EmptyState>>
    /\ currentIndex = 0
    /\ isUndoRedoAction = FALSE
    /\ resetTimers = 0
    /\ nextSnap = 0
    /\ navCalls = 0
    /\ run = 0
    /\ lastOps = <<>>

saveState ==
    /\ nextSnap < MaxSaves
    /\ LET snap == Snap(nextSnap + 1) IN
       IF SaveSuppressed(isUndoRedoAction)
       THEN /\ UNCHANGED <<history, currentIndex, nextSnap>>
            /\ run' = 0
            /\ lastOps' = Remember(Call("saveState", snap, FALSE))
       ELSE /\ history' = SaveStateHistory(history, currentIndex, snap)
            /\ currentIndex' = SaveStateIndex(currentIndex)
            /\ nextSnap' = nextSnap + 1
            /\ run' = run + 1
            /\ lastOps' = Remember(Call("saveState", snap, TRUE))
    /\ UNCHANGED <<isUndoRedoAction, resetTimers, navCalls, storeVars, appVars, canvasVars, fnVars>>

undo ==
    /\ navCalls < MaxNav
    /\ navCalls' = navCalls + 1
    /\ run' = 0
    /\ IF currentIndex > 0
       THEN /\ isUndoRedoAction' = TRUE
            /\ currentIndex' = currentIndex - 1
            /\ resetTimers' = resetTimers + 1
            /\ lastOps' = Remember(Call("undo", EmptyState, TRUE))
       ELSE /\ UNCHANGED <<isUndoRedoAction, currentIndex, resetTimers>>
            /\ lastOps' = Remember(Call("undo", EmptyState, FALSE))
    /\ UNCHANGED <<history, nextSnap, storeVars, appVars, canvasVars, fnVars>>

redo ==
    /\ navCalls < MaxNav
    /\ navCalls' = navCalls + 1
    /\ run' = 0
    /\ IF currentIndex < Len(history) - 1
       THEN /\ isUndoRedoAction' = TRUE
            /\ currentIndex' = currentIndex + 1
            /\ resetTimers' = resetTimers + 1
            /\ lastOps' = Remember(Call("redo", EmptyState, TRUE))
       ELSE /\ UNCHANGED <<isUndoRedoAction, currentIndex, resetTimers>>
            /\ lastOps' = Remember(Call("redo", EmptyState, FALSE))
    /\ UNCHANGED <<history, nextSnap, storeVars, appVars, canvasVars, fnVars>>

clearHistory ==
    /\ navCalls < MaxNav
    /\ navCalls' = navCalls + 1
    /\ run' = 0
    /\ history' = <<EmptyState>>
    /\ currentIndex' = 0
    /\ lastOps' = Remember(Call("clearHistory", EmptyState, TRUE))
    /\ UNCHANGED <<isUndoRedoAction, resetTimers, nextSnap, storeVars, appVars, canvasVars, fnVars>>

\* the callback of setTimeout(() => { isUndoRedoAction.current = false }, 100)
resetFlagTimer ==
    /\ resetTimers > 0
    /\ resetTimers' = resetTimers - 1
    /\ isUndoRedoAction' = FALSE
    /\ UNCHANGED <<history, currentIndex, obsVars, storeVars, appVars, canvasVars, fnVars>>

HookNext == saveState \/ undo \/ redo \/ clearHistory \/ resetFlagTimer

Spec == HookInit /\ [][HookNext]_vars

(***************************************************************************)
(* History hook: claims                                                    *)
(***************************************************************************)

\* the k-th newest call the caller issued (k = 0: the newest)
Ago(k) == lastOps[Len(lastOps) - k]
IsCall(k, op) == Len(lastOps) > k /\ Ago(k).op = op
Accepted(k, op) == IsCall(k, op) /\ Ago(k).ok
InHistory(snap) == \E j \in 1..Len(history) : history[j] = snap

\* saveState(A), saveState(B), undo()
AfterABUndo(off) ==
    /\ IsCall(off, "undo")
    /\ IsCall(off + 1, "saveState")
    /\ IsCall(off + 2, "saveState")
\* ... with both snapshots pushed
AcceptedAB(off) == Accepted(off + 1, "saveState") /\ Accepted(off + 2, "saveState")

\* C1 (as stated): after saveState(A), saveState(B), undo() the current state
\* is A; after a following redo() it is B; after undo() and saveState(C) a
\* redo() is a no-op, the current state is C and B is gone -- whether or not
\* the hook is still in its 100 ms replay window when saveState is called.
C1_LinearUndoRedo_AsStated ==
    /\ AfterABUndo(0) => getCurrentState = Ago(2).snap
    /\ (IsCall(0, "redo") /\ AfterABUndo(1)) => getCurrentState = Ago(2).snap
    /\ (IsCall(0, "redo") /\ IsCall(1, "saveState") /\ AfterABUndo(2)) =>
          /\ ~Ago(0).ok
          /\ getCurrentState = Ago(1).snap
          /\ ~InHistory(Ago(3).snap)

\* C1 (amended): the same navigation, for saveState calls that the hook
\* accepts, i.e. calls made when the replay window of an earlier undo/redo has
\* closed: undo() shows A, redo() shows B again, and undo(), saveState(C)
\* leaves C current, B discarded and redo() without effect.
C1_LinearUndoRedo ==
    /\ (AfterABUndo(0) /\ AcceptedAB(0)) => getCurrentState = Ago(2).snap
    /\ (IsCall(0, "redo") /\ AfterABUndo(1) /\ AcceptedAB(1)) =>
          getCurrentState = Ago(2).snap
    /\ (Accepted(0, "saveState") /\ AfterABUndo(1) /\ AcceptedAB(1)) =>
          /\ getCurrentState = Ago(0).snap
          /\ ~InHistory(Ago(2).snap)
          /\ ~canRedo
    /\ (IsCall(0, "redo") /\ Accepted(1, "saveState") /\ AfterABUndo(2) /\ AcceptedAB(2)) =>
          /\ ~Ago(0).ok
          /\ getCurrentState = Ago(1).snap
          /\ ~InHistory(Ago(3).snap)

\* saveState(A), saveState(B), undo(), saveState(C) accepted, redo() refused
C1_Witness ==
    /\ IsCall(0, "redo") /\ ~Ago(0).ok
    /\ Accepted(1, "saveState") /\ AfterABUndo(2) /\ AcceptedAB(2)
    /\ getCurrentState = Ago(1).snap

\* C2: an accepted saveState, at any cursor position, drops every entry after
\* the cursor, makes the new snapshot the last entry and puts the cursor on
\* it (canRedo is false); what is kept before it is the old log up to the
\* cursor, less what the cap evicts from the oldest end.
C2_AcceptedSave ==
    (nextSnap' = nextSnap + 1) =>
        LET kept == SubSeq(history', 1, Len(history') - 1)
            upTo == SubSeq(history, 1, currentIndex + 1)
        IN  /\ history'[Len(history')] = Snap(nextSnap')
            /\ currentIndex' = Len(history') - 1
            /\ ~canRedo'
            /\ \A j \in (currentIndex + 2)..Len(history) :
                   \A i \in 1..Len(history') : history'[i] # history[j]
            /\ Len(history') = Min(currentIndex + 2, MAX_HISTORY_SIZE)
            /\ kept = SubSeq(upTo, Len(upTo) - Len(kept) + 1, Len(upTo))

C2_SaveDiscardsRedoBranch == [][C2_AcceptedSave]_vars

\* a snapshot pushed right after an effective undo, below the newest entry
C2_Witness ==
    /\ Accepted(0, "saveState") /\ Accepted(1, "undo")
    /\ Accepted(2, "saveState") /\ Accepted(3, "saveState")
    /\ history[Len(history)] = Ago(0).snap
    /\ ~InHistory(Ago(2).snap)
    /\ ~canRedo

\* C3: once more than 50 snapshots have been pushed in a row, the log is
\* exactly the 50 most recent of them in push order, cursor on the newest.
C3_CapKeepsNewest ==
    run > MAX_HISTORY_SIZE =>
        /\ Len(history) = MAX_HISTORY_SIZE
        /\ \A j \in 1..MAX_HISTORY_SIZE :
               history[j] = Snap(nextSnap - MAX_HISTORY_SIZE + j)
        /\ currentIndex = MAX_HISTORY_SIZE - 1

C3_Witness ==
    /\ run > MAX_HISTORY_SIZE
    /\ history[1] = Snap(nextSnap - MAX_HISTORY_SIZE + 1)
    /\ getCurrentState = Snap(nextSnap)

\* C4: the log is never empty, never longer than 50, and the cursor always
\* indexes one of its entries.
C4_CursorInRange ==
    /\ Len(history) >= 1
    /\ Len(history) <= MAX_HISTORY_SIZE
    /\ currentIndex >= 0
    /\ currentIndex <= Len(history) - 1

\* right after a push that evicted the oldest entry of a full log
C4_Witness ==
    /\ Accepted(0, "saveState")
    /\ Len(history) = MAX_HISTORY_SIZE
    /\ history[1] # EmptyState
    /\ currentIndex = Len(history) - 1

(***************************************************************************)
(* Table store: data                                                       *)
(***************************************************************************)

MapSeq(F(_), s) == [i \in 1..Len(s) |-> F(s[i])]

\* object spread { ...r, ...u }
Spread(r, u) ==
    [f \in (DOMAIN r) \cup (DOMAIN u) |-> IF f \in DOMAIN u THEN u[f] ELSE r[f]]

\* Date.now().toString()
NowString(t) == ToString(t)

EmptySchema == [tables |-> <<>>, relationships |-> <<>>]
EmptyData   == [tableData |-> <<>>, schema |-> EmptySchema]

SchemaOf(td) == td.schema
SchemasOf(tds) == MapSeq(SchemaOf, tds)

Touches(rel, tableId) == rel.fromTableId = tableId \/ rel.toTableId = tableId

\* ---- what the callers of the store pass in ----
TableIds == {"t1", "t2"}
NewSchema(t) == [id |-> t, name |-> "n", columns |-> <<"c1">>]
TableUpdates == {[name |-> "m"], [columns |-> <<"c2">>]}
RowInputs == {[c1 |-> "a"]}
RowUpdates == {[c1 |-> "b"]}
Rel(r, from, to) ==
    [id |-> r, fromTableId |-> from, fromColumnId |-> "c1",
     toTableId |-> to, toColumnId |-> "c1", type |-> "one-to-many"]
Relationships == {Rel("r1", "t1", "t2"), Rel("r2", "t2", "t2")}
RelIds == {"r1", "r2"}

(***************************************************************************)
(* LocalStorageDataService                                                 *)
(***************************************************************************)

\* The item under STORAGE_KEY, by what JSON.parse makes of it:
\*   "missing"      getItem returns null (or the empty string)
\*   "unparseable"  JSON.parse throws
\*   "null"         the text null: data.tableData throws
\*   "v2"           { tableData: [...], schema: { tables, ... }, ... }
\*   "tablesOnly"   { tableData: [...] } with no schema, or with a schema that
\*                  has no tables; relationships is data.schema?.relationships
\*                  as zero or one list
\*   "array"        [...], the legacy document
\*   "other"        any other value
\* An entry of a table list is a TableData or null.
NullEntry == [null |-> TRUE]
IsNull(entry) == "null" \in DOMAIN entry
HasNull(entries) == \E i \in 1..Len(entries) : IsNull(entries[i])

\* x || [] for a list that may be absent
OrEmpty(maybe) == IF maybe = <<>> THEN <<>> ELSE maybe[1]

\* loadData() that knows the current document only
loadDataCurrentOnly(item) ==
    IF item.shape = "v2"
    THEN [tableData |-> item.tableData, schema |-> item.schema]
    ELSE EmptyData

\* loadData(): what it resolves to for the item under STORAGE_KEY; reading
\* td.schema of a null entry throws inside the try block
loadData(item) ==
    IF item.shape = "missing" THEN EmptyData
    ELSE IF item.shape \in {"unparseable", "null"} THEN EmptyData
    ELSE IF item.shape = "v2"
    THEN [tableData |-> item.tableData, schema |-> item.schema]
    ELSE IF item.shape = "tablesOnly"
    THEN IF HasNull(item.tableData) THEN EmptyData
         ELSE [tableData |-> item.tableData,
               schema |-> [tables |-> SchemasOf(item.tableData),
                           relationships |-> OrEmpty(item.relationships)]]
    ELSE IF item.shape = "array"
    THEN IF HasNull(item.items) THEN EmptyData
         ELSE [tableData |-> item.items,
               schema |-> [tables |-> SchemasOf(item.items),
                           relationships |-> <<>>]]
    ELSE EmptyData

\* saveAllData(tableData, schema): the item written by localStorage.setItem
saveAllData(td, sch, t) ==
    [shape |-> "v2", tableData |-> td, schema |-> sch, lastModified |-> t]

S_saveTable(existingData, newTableData) ==
    [tableData |-> Append(existingData.tableData, newTableData),
     schema    |-> [existingData.schema EXCEPT
                        !.tables = Append(@, newTableData.schema)]]

S_updateTable(existingData, tableId, updates) ==
    LET UpdTable(table) ==
            IF table.schema.id = tableId
            THEN [table EXCEPT !.schema = Spread(table.schema, updates)]
            ELSE table
        UpdSchema(table) ==
            IF table.id = tableId THEN Spread(table, updates) ELSE table
    IN  [tableData |-> MapSeq(UpdTable, existingData.tableData),
         schema    |-> [existingData.schema EXCEPT !.tables = MapSeq(UpdSchema, @)]]

S_deleteTable(existingData, tableId) ==
    LET KeepTable(table) == table.schema.id # tableId
        KeepSchema(table) == table.id # tableId
        KeepRel(rel) == rel.fromTableId # tableId /\ rel.toTableId # tableId
    IN  [tableData |-> SelectSeq(existingData.tableData, KeepTable),
         schema    |-> [tables |-> SelectSeq(existingData.schema.tables, KeepSchema),
                        relationships |->
                            SelectSeq(existingData.schema.relationships, KeepRel)]]

S_addRow(existingData, tableId, row, t) ==
    LET Upd(table) ==
            IF table.schema.id = tableId
            THEN [table EXCEPT !.rows = Append(@, Spread([id |-> NowString(t)], row))]
            ELSE table
    IN  [existingData EXCEPT !.tableData = MapSeq(Upd, @)]

S_updateRow(existingData, tableId, rowId, updates) ==
    LET UpdRow(row) == IF row.id = rowId THEN Spread(row, updates) ELSE row
        Upd(table) ==
            IF table.schema.id = tableId
            THEN [table EXCEPT !.rows = MapSeq(UpdRow, @)]
            ELSE table
    IN  [existingData EXCEPT !.tableData = MapSeq(Upd, @)]

S_deleteRow(existingData, tableId, rowId) ==
    LET KeepRow(row) == row.id # rowId
        Upd(table) ==
            IF table.schema.id = tableId
            THEN [table EXCEPT !.rows = SelectSeq(@, KeepRow)]
            ELSE table
    IN  [existingData EXCEPT !.tableData = MapSeq(Upd, @)]

S_addRelationship(existingData, relationship) ==
    [existingData EXCEPT !.schema.relationships = Append(@, relationship)]

S_deleteRelationship(existingData, relationshipId) ==
    LET Keep(rel) == rel.id # relationshipId
    IN  [existingData EXCEPT !.schema.relationships = SelectSeq(@, Keep)]

(***************************************************************************)
(* TableManagementProvider                                                 *)
(***************************************************************************)

\* the effect "Sync schema tables with tableData whenever tableData changes"
SyncSchema(td, sch) ==
    IF Len(td) > 0 THEN [sch EXCEPT !.tables = SchemasOf(td)] ELSE sch

\* position: { x: 100 + (length % 3) * 300, y: 100 + floor(length / 3) * 250 }
GridPosition(n) == [x |-> 100 + (n % 3) * 300, y |-> 100 + (n \div 3) * 250]

\* createTable: { ...tableSchema, position: <grid slot of tableData.length> }
tableWithPosition(tableSchema, length) ==
    Spread(tableSchema, [position |-> GridPosition(length)])

\* the state updaters that follow the awaited service call, as
\* [tableData, schema]; prev is the provider state they are applied to
P_createTable(prev, newTableData) ==
    [tableData |-> Append(prev.tableData, newTableData),
     schema    |-> [prev.schema EXCEPT !.tables = Append(@, newTableData.schema)]]

P_updateTable(prev, tableId, updates) ==
    LET UpdTable(table) ==
            IF table.schema.id = tableId
            THEN [table EXCEPT !.schema = Spread(table.schema, updates)]
            ELSE table
        UpdSchema(table) ==
            IF table.id = tableId THEN Spread(table, updates) ELSE table
    IN  [tableData |-> MapSeq(UpdTable, prev.tableData),
         schema    |-> [prev.schema EXCEPT !.tables = MapSeq(UpdSchema, @)]]

P_deleteTableKeepsSchema(prev, tableId) ==
    LET KeepTable(table) == table.schema.id # tableId
        KeepRel(rel) == rel.fromTableId # tableId /\ rel.toTableId # tableId
    IN  [tableData |-> SelectSeq(prev.tableData, KeepTable),
         schema    |-> [tables |-> prev.schema.tables,
                        relationships |-> SelectSeq(prev.schema.relationships, KeepRel)]]

P_deleteTableFromOnly(prev, tableId) ==
    LET KeepTable(table) == table.schema.id # tableId
        KeepSchema(table) == table.id # tableId
        KeepRel(rel) == rel.fromTableId # tableId
    IN  [tableData |-> SelectSeq(prev.tableData, KeepTable),
         schema    |-> [tables |-> SelectSeq(prev.schema.tables, KeepSchema),
                        relationships |-> SelectSeq(prev.schema.relationships, KeepRel)]]

P_deleteTable(prev, tableId) ==
    LET KeepTable(table) == table.schema.id # tableId
        KeepSchema(table) == table.id # tableId
        KeepRel(rel) == rel.fromTableId # tableId /\ rel.toTableId # tableId
    IN  [tableData |-> SelectSeq(prev.tableData, KeepTable),
         schema    |-> [tables |-> SelectSeq(prev.schema.tables, KeepSchema),
                        relationships |-> SelectSeq(prev.schema.relationships, KeepRel)]]

P_addRow(prev, tableId, row, t) ==
    LET Upd(table) ==
            IF table.schema.id = tableId
            THEN [table EXCEPT !.rows = Append(@, Spread([id |-> NowString(t)], row))]
            ELSE table
    IN  [prev EXCEPT !.tableData = MapSeq(Upd, @)]

P_updateRow(prev, tableId, rowId, updates) ==
    LET UpdRow(row) == IF row.id = rowId THEN Spread(row, updates) ELSE row
        Upd(table) ==
            IF table.schema.id = tableId
            THEN [table EXCEPT !.rows = MapSeq(UpdRow, @)]
            ELSE table
    IN  [prev EXCEPT !.tableData = MapSeq(Upd, @)]

P_deleteRow(prev, tableId, rowId) ==
    LET KeepRow(row) == row.id # rowId
        Upd(table) ==
            IF table.schema.id = tableId
            THEN [table EXCEPT !.rows = SelectSeq(@, KeepRow)]
            ELSE table
    IN  [prev EXCEPT !.tableData = MapSeq(Upd, @)]

P_addRelationship(prev, relationship) ==
    [prev EXCEPT !.schema.relationships = Append(@, relationship)]

P_deleteRelationship(prev, relationshipId) ==
    LET Keep(rel) == rel.id # relationshipId
    IN  [prev EXCEPT !.schema.relationships = SelectSeq(@, Keep)]

\* the provider state after the render and the sync effect that follow a
\* handler which called setTableData
Settled(next) ==
    [tableData |-> next.tableData, schema |-> SyncSchema(next.tableData, next.schema)]

Memory == [tableData |-> tableData, schema |-> schema]

\* try { await dataService.op(...); <state updaters> } catch (e) { throw e }:
\* the updaters run only if the awaited call did not throw
AfterAwaitOptimistic(threw, prev, next) == next

AfterAwait(threw, prev, next) == IF threw THEN prev ELSE next

\* ---- documents the program meets ----

\* the item left by an earlier session that created t1 and t2, added a row
\* to t2 and related t1 -> t2 and t2 -> t2
SavedItem ==
    LET s1 == Spread(NewSchema("t1"), [position |-> GridPosition(0)])
        s2 == Spread(NewSchema("t2"), [position |-> GridPosition(1)])
    IN  saveAllData(
            << [schema |-> s1, rows |-> <<>>],
               [schema |-> s2, rows |-> << [id |-> NowString(0), c1 |-> "a"] >>] >>,
            [tables |-> <<s1, s2>>,
             relationships |-> << Rel("r1", "t1", "t2"), Rel("r2", "t2", "t2") >>],
            0)

InitialItems == {[shape |-> "missing"], SavedItem}

\* what importFromJSON resolves to for the files offered to the import:
\* one table with a row and a relationship; one table whose schema has no id
ImportDocs ==
    { [tables |-> << [schema |-> NewSchema("t2"),
                      data |-> << [id |-> NowString(1), c1 |-> "a"] >>] >>,
       relationships |-> << Rel("r2", "t2", "t2") >>],
      [tables |-> << [schema |-> NewSchema(""), data |-> <<>>] >>,
       relationships |-> <<>>] }

\* what importFromCSV resolves to for a one-line file read at time t
CsvRows(t) == << [id |-> "imported-" \o NowString(t) \o "-" \o ToString(0), c1 |-> "a"] >>

\* the ids of the rows the table editor shows for a table
RowIdsOf(tableId) ==
    UNION { { tableData[i].rows[j].id : j \in 1..Len(tableData[i].rows) } :
            i \in {k \in 1..Len(tableData) : tableData[k].schema.id = tableId} }

\* a table of the schema has the column
ColumnExists(sch, tableId, columnId) ==
    \E i \in 1..Len(sch.tables) :
        /\ sch.tables[i].id = tableId
        /\ \E k \in 1..Len(sch.tables[i].columns) : sch.tables[i].columns[k] = columnId

\* the schema designer draws a relationship between the column handles of
\* two table nodes it shows
Connectable(rel) ==
    /\ ColumnExists(schema, rel.fromTableId, rel.fromColumnId)
    /\ ColumnExists(schema, rel.toTableId, rel.toColumnId)

\* what the form of the table editor holds after handleStartEdit(row) on a
\* row of the table: a copy of the row, its id included
EditedRows(tableId) ==
    UNION { { tableData[i].rows[j] : j \in 1..Len(tableData[i].rows) } :
            i \in {k \in 1..Len(tableData) : tableData[k].schema.id = tableId} }

(***************************************************************************)
(* Table store: operations                                                 *)
(***************************************************************************)

StoreInit ==
    /\ CanvasIdle
    /\ history = <<EmptyState>>
    /\ currentIndex = 0
    /\ isUndoRedoAction = FALSE
    /\ resetTimers = 0
    /\ nextSnap = 0
    /\ navCalls = 0
    /\ run = 0
    /\ lastOps = <<>>
    /\ tableData = <<>>
    /\ schema = EmptySchema
    /\ isLoading = TRUE
    /\ stored \in InitialItems
    /\ now = 1
    /\ storeCalls = 0
    /\ lastCall = [op |-> "none", id |-> "", threw |-> FALSE]
    /\ imported = FALSE

\* the mount effect: loadInitialData
loadInitialData ==
    /\ isLoading
    /\ LET data == Settled(loadData(stored))
       IN  /\ tableData' = data.tableData
           /\ schema' = data.schema
    /\ isLoading' = FALSE
    /\ lastCall' = [op |-> "loadInitialData", id |-> "", threw |-> FALSE]
    /\ UNCHANGED <<stored, now, storeCalls, imported, hookVars, obsVars, appVars, canvasVars, fnVars>>

\* one provider operation: the service call computes doc from the stored
\* item and writes it unless localStorage.setItem throws; the provider then
\* applies its own updaters, giving next
Commit(op, id, threw, doc, next) ==
    /\ ~isLoading
    /\ storeCalls < MaxStoreCalls
    /\ storeCalls' = storeCalls + 1
    /\ lastCall' = [op |-> op, id |-> id, threw |-> threw]
    /\ stored' = IF threw THEN stored ELSE saveAllData(doc.tableData, doc.schema, now)
    /\ LET m == AfterAwait(threw, Memory, next)
       IN  /\ tableData' = m.tableData
           /\ schema' = m.schema
    /\ UNCHANGED <<isLoading, imported, hookVars, obsVars, appVars, canvasVars, fnVars>>

createTable(t, threw) ==
    LET newTableData ==
            [schema |-> tableWithPosition(NewSchema(t), Len(tableData)), rows |-> <<>>]
    IN  /\ Commit("createTable", t, threw,
                  S_saveTable(loadData(stored), newTableData),
                  Settled(P_createTable(Memory, newTableData)))
        /\ UNCHANGED now

updateTable(t, updates, threw) ==
    /\ Commit("updateTable", t, threw,
              S_updateTable(loadData(stored), t, updates),
              Settled(P_updateTable(Memory, t, updates)))
    /\ UNCHANGED now

deleteTable(t, threw) ==
    /\ Commit("deleteTable", t, threw,
              S_deleteTable(loadData(stored), t),
              Settled(P_deleteTable(Memory, t)))
    /\ UNCHANGED now

\* the service reads Date.now() before the provider does; elapsed is the
\* number of milliseconds the clock advances in between
addRow(t, row, threw, elapsed) ==
    /\ now + elapsed <= MaxClock
    /\ Commit("addRow", t, threw,
              S_addRow(loadData(stored), t, row, now),
              Settled(P_addRow(Memory, t, row, now + elapsed)))
    /\ now' = now + elapsed

updateRow(t, rowId, updates, threw) ==
    /\ Commit("updateRow", t, threw,
              S_updateRow(loadData(stored), t, rowId, updates),
              Settled(P_updateRow(Memory, t, rowId, updates)))
    /\ UNCHANGED now

deleteRow(t, rowId, threw) ==
    /\ Commit("deleteRow", t, threw,
              S_deleteRow(loadData(stored), t, rowId),
              Settled(P_deleteRow(Memory, t, rowId)))
    /\ UNCHANGED now

addRelationship(rel, threw) ==
    /\ Commit("addRelationship", rel.id, threw,
              S_addRelationship(loadData(stored), rel),
              P_addRelationship(Memory, rel))
    /\ UNCHANGED now

deleteRelationship(r, threw) ==
    /\ Commit("deleteRelationship", r, threw,
              S_deleteRelationship(loadData(stored), r),
              P_deleteRelationship(Memory, r))
    /\ UNCHANGED now

\* the TableData handleImportJSON builds from an entry of data.tables
ImportedEntry(table, t) ==
    [schema |-> Spread(table.schema,
                       [id |-> IF table.schema.id # "" THEN table.schema.id
                               ELSE NowString(t)]),
     rows |-> IF "data" \in DOMAIN table THEN table.data ELSE <<>>]

\* DataImportExport.handleImportJSON, for a document with a tables array
handleImportJSON(data) ==
    /\ ~isLoading
    /\ storeCalls < MaxStoreCalls
    /\ storeCalls' = storeCalls + 1
    /\ LET Entry(table) == ImportedEntry(table, now)
           newTableData == MapSeq(Entry, data.tables)
           newSchema == [tables |-> SchemasOf(newTableData),
                         relationships |-> data.relationships]
           next == Settled([tableData |-> newTableData, schema |-> newSchema])
       IN  /\ tableData' = next.tableData
           /\ schema' = next.schema
    /\ lastCall' = [op |-> "importJSON", id |-> "", threw |-> FALSE]
    /\ imported' = TRUE
    /\ UNCHANGED <<isLoading, stored, now, hookVars, obsVars, appVars, canvasVars, fnVars>>

\* DataImportExport.handleImportCSV
handleImportCSV(t) ==
    /\ ~isLoading
    /\ storeCalls < MaxStoreCalls
    /\ storeCalls' = storeCalls + 1
    /\ IF \E i \in 1..Len(tableData) : tableData[i].schema.id = t
       THEN LET rows == CsvRows(now)
                Upd(table) == IF table.schema.id = t
                              THEN [table EXCEPT !.rows = @ \o rows]
                              ELSE table
                next == Settled([tableData |-> MapSeq(Upd, tableData), schema |-> schema])
            IN  /\ tableData' = next.tableData
                /\ schema' = next.schema
                /\ lastCall' = [op |-> "importCSV", id |-> t, threw |-> FALSE]
                /\ imported' = TRUE
       ELSE /\ lastCall' = [op |-> "importCSV", id |-> t, threw |-> TRUE]
            /\ UNCHANGED <<tableData, schema, imported>>
    /\ UNCHANGED <<isLoading, stored, now, hookVars, obsVars, appVars, canvasVars, fnVars>>

\* a millisecond passes
tick ==
    /\ ~isLoading
    /\ now < MaxClock
    /\ now' = now + 1
    /\ UNCHANGED <<tableData, schema, isLoading, stored, storeCalls, lastCall,
                   imported, hookVars, obsVars, appVars, canvasVars, fnVars>>

\* updateTable and, without awaiting it, addRow on the same table: both
\* service calls run loadData up to their first await before either resumes,
\* so both read the stored item as it is; the writes and the provider's
\* updaters then follow in the order of the calls
updateTableThenAddRow(t, updates, row, threw, elapsed) ==
    /\ now + elapsed <= MaxClock
    /\ LET existingData == loadData(stored)
           first  == S_updateTable(existingData, t, updates)
           second == S_addRow(existingData, t, row, now)
       IN  Commit("updateTable, addRow", t, threw,
                  second,
                  Settled(P_addRow(Settled(P_updateTable(Memory, t, updates)),
                                   t, row, now + elapsed)))
    /\ now' = now + elapsed

StoreNext ==
    \/ loadInitialData
    \/ \E t \in TableIds, threw \in BOOLEAN : createTable(t, threw)
    \/ \E t \in TableIds, u \in TableUpdates, threw \in BOOLEAN : updateTable(t, u, threw)
    \/ \E t \in TableIds, threw \in BOOLEAN : deleteTable(t, threw)
    \/ \E t \in TableIds, threw \in BOOLEAN, elapsed \in {0, 1} :
           \E row \in RowInputs \cup EditedRows(t) : addRow(t, row, threw, elapsed)
    \/ \E t \in TableIds, u \in RowUpdates, threw \in BOOLEAN :
           \E rowId \in RowIdsOf(t) : updateRow(t, rowId, u, threw)
    \/ \E t \in TableIds, threw \in BOOLEAN :
           \E rowId \in RowIdsOf(t) : deleteRow(t, rowId, threw)
    \/ \E rel \in Relationships, threw \in BOOLEAN :
           Connectable(rel) /\ addRelationship(rel, threw)
    \/ \E r \in RelIds, threw \in BOOLEAN : deleteRelationship(r, threw)
    \/ \E data \in ImportDocs : handleImportJSON(data)
    \/ \E t \in TableIds : handleImportCSV(t)
    \/ \E t \in TableIds, u \in TableUpdates, row \in RowInputs,
          threw \in BOOLEAN, elapsed \in {0, 1} :
           updateTableThenAddRow(t, u, row, threw, elapsed)
    \/ tick

SpecStore == StoreInit /\ [][StoreNext]_vars

(***************************************************************************)
(* Table store: claims                                                     *)
(***************************************************************************)

Persisted == loadData(stored)

\* the ids of the rows of every table are pairwise different
UniqueRowIds(tds) ==
    \A i \in 1..Len(tds) : \A j, k \in 1..Len(tds[i].rows) :
        tds[i].rows[j].id = tds[i].rows[k].id => j = k
HasTable(tds, t) == \E i \in 1..Len(tds) : tds[i].schema.id = t
Without(tds, t) == LET Other(table) == table.schema.id # t IN SelectSeq(tds, Other)
Untouched(rels, t) == LET Other(rel) == ~Touches(rel, t) IN SelectSeq(rels, Other)

\* C6: schema.tables and the per-table schema copies tableData[i].schema are
\* the same list (membership, order, content) in every settled state.
C6_SchemaInSync == schema.tables = SchemasOf(tableData)

\* a table was renamed by updateTable and both copies carry the new name
C6_Witness ==
    /\ lastCall.op = "updateTable" /\ ~lastCall.threw
    /\ \E i \in 1..Len(tableData) :
           /\ tableData[i].schema.id = lastCall.id
           /\ tableData[i].schema # Spread(NewSchema(lastCall.id),
                                           [position |-> tableData[i].schema.position])
           /\ schema.tables[i] = tableData[i].schema

\* C7: a successful deleteTable(T) removes, in the same step as the table,
\* exactly the relationships whose fromTableId or toTableId is T, and leaves
\* every other table with its schema and rows as it was -- in the provider
\* state and in the stored document.
C7_DeleteStep(t) ==
    deleteTable(t, FALSE) =>
        /\ ~HasTable(tableData', t)
        /\ tableData' = Without(tableData, t)
        /\ schema'.relationships = Untouched(schema.relationships, t)
        /\ Persisted'.tableData = Without(Persisted.tableData, t)
        /\ Persisted'.schema.relationships = Untouched(Persisted.schema.relationships, t)

C7_DeleteTableCascade == [][\A t \in TableIds : C7_DeleteStep(t)]_vars

\* t1 deleted: its relationship r1 went with it, r2 and t2 with its row stayed
C7_Witness ==
    /\ lastCall = [op |-> "deleteTable", id |-> "t1", threw |-> FALSE]
    /\ schema.relationships = << Rel("r2", "t2", "t2") >>
    /\ Len(tableData) = 1
    /\ tableData[1].schema.id = "t2"
    /\ Len(tableData[1].rows) = 1

\* C8: a store mutation whose adapter call fails rethrows (the caller sees
\* the rejection) and leaves tableData and schema as they were.
C8_FailedCall ==
    (storeCalls' # storeCalls /\ lastCall'.threw) =>
        (tableData' = tableData /\ schema' = schema)

C8_FailureLeavesMemory == [][C8_FailedCall]_vars

\* addRow on an existing table failed in the adapter
C8_Witness ==
    /\ lastCall.op = "addRow" /\ lastCall.threw
    /\ HasTable(tableData, lastCall.id)
    /\ Persisted = Memory

\* C9: after store mutations issued one after the other, what loadData()
\* returns equals the provider's tableData and schema, row ids included.
C9_ReloadShowsSameState ==
    (~isLoading /\ ~imported) => Persisted = Memory

\* C10: after a successful JSON or CSV import, what loadData() returns
\* equals the provider's tableData and schema.
C10_ImportIsPersisted ==
    (lastCall.op \in {"importJSON", "importCSV"} /\ ~lastCall.threw) =>
        Persisted = Memory

\* both ends of every relationship of the schema exist
EndsExist(sch) ==
    \A i \in 1..Len(sch.relationships) :
        LET rel == sch.relationships[i]
        IN  /\ ColumnExists(sch, rel.fromTableId, rel.fromColumnId)
            /\ ColumnExists(sch, rel.toTableId, rel.toColumnId)

\* C20: in every state reached through createTable, updateTable, deleteTable,
\* addRelationship and deleteRelationship, every relationship of the schema
\* references a from-table/from-column pair and a to-table/to-column pair
\* that exist, in memory and in the stored document.
C20_RelationshipEndsExist ==
    imported = FALSE => EndsExist(schema) /\ EndsExist(Persisted.schema)

\* C19: row ids are unique within every table, in memory and in the stored
\* document, after any sequence of addRow, updateRow and deleteRow, adds
\* from the table editor during a row edit and adds at one clock value
\* included.
C19_RowIdsUnique ==
    imported = FALSE => UniqueRowIds(tableData) /\ UniqueRowIds(Persisted.tableData)

\* ---- calls that are not awaited ----

\* C30: when the stored document and the memory agree and updateTable is
\* followed at once by addRow, neither write failing and the clock not
\* advancing in between, the stored document and the memory, which holds the
\* table's update and the new row, agree afterwards.
C30_UnawaitedCallsBothPersist ==
    [][ (/\ Persisted = Memory
         /\ storeCalls' = storeCalls + 1
         /\ lastCall'.op = "updateTable, addRow"
         /\ ~lastCall'.threw
         /\ now' = now)
        => loadData(stored') = [tableData |-> tableData', schema |-> schema'] ]_vars

(***************************************************************************)
(* Canvas: data                                                            *)
(***************************************************************************)

\* user inputs (clicks, drags, key presses) on the canvas and its palette
MaxGestures == 4

\* flowUtils nodeTypes
nodeTypes ==
    { [id |-> "data",    category |-> "Storage"],
      [id |-> "process", category |-> "Transform"] }

\* the places a node can be dropped at or dragged to
Positions == {0, 1}

\* createNewNode at clock reading t
createNewNode(type, position, t) ==
    [id |-> type.id \o "-" \o ToString(t),
     category |-> type.category,
     position |-> position]

\* the handle ids CustomNode renders; "" is a connection without a handle id
SourceHandles == {"output"}
TargetHandles == {"input"}

Connection(source, target, sourceHandle, targetHandle) ==
    [source |-> source, target |-> target,
     sourceHandle |-> sourceHandle, targetHandle |-> targetHandle]

\* x || d for strings
OrDefault(x, d) == IF x = "" THEN d ELSE x

NodeIds(ns) == {ns[i].id : i \in 1..Len(ns)}
NodeById(ns, id) == CHOOSE n \in {ns[i] : i \in 1..Len(ns)} : n.id = id

\* isValidConnection without its category table: any two distinct nodes
isValidConnectionAnyPair(connection, ns) ==
    /\ connection.source # connection.target
    /\ connection.source \in NodeIds(ns)
    /\ connection.target \in NodeIds(ns)
    /\ OrDefault(connection.sourceHandle, "output") \in {"output", "output-right"}
    /\ OrDefault(connection.targetHandle, "input") \in {"input", "input-left"}

isValidConnection(connection, ns) ==
    IF connection.source = connection.target THEN FALSE
    ELSE IF ~(connection.source \in NodeIds(ns) /\ connection.target \in NodeIds(ns))
    THEN FALSE
    ELSE LET sourceNode == NodeById(ns, connection.source)
             targetNode == NodeById(ns, connection.target)
             isValidSourceToTarget ==
                \/ /\ sourceNode.category \in {"Storage", "Miscellaneous"}
                   /\ targetNode.category = "Transform"
                \/ /\ sourceNode.category = "Transform"
                   /\ targetNode.category \in {"Storage", "Miscellaneous"}
             sourceHandle == OrDefault(connection.sourceHandle, "output")
             targetHandle == OrDefault(connection.targetHandle, "input")
         IN  /\ isValidSourceToTarget
             /\ sourceHandle \in {"output", "output-right"}
             /\ targetHandle \in {"input", "input-left"}

\* the edge onConnect builds at clock reading t
NewEdge(params, t) ==
    [id |-> "edge-" \o params.source \o "-" \o params.target \o "-" \o ToString(t),
     source |-> params.source,
     target |-> params.target,
     sourceHandle |-> OrDefault(params.sourceHandle, "output"),
     targetHandle |-> OrDefault(params.targetHandle, "input")]

\* addEdge of the flow library: a connection that exists is not added again
addEdge(newEdge, eds) ==
    IF \E i \in 1..Len(eds) :
          /\ eds[i].source = newEdge.source
          /\ eds[i].target = newEdge.target
          /\ eds[i].sourceHandle = newEdge.sourceHandle
          /\ eds[i].targetHandle = newEdge.targetHandle
    THEN eds
    ELSE Append(eds, newEdge)

\* App: the tab the canvas shows
ActiveTab(tbs) ==
    CHOOSE tab \in {tbs[i] : i \in 1..Len(tbs)} : tab.id = activeTabId

\* App.handleNodesChange / handleEdgesChange / handleAddNode: the setTabs updaters
handleNodesChange(prev, ns) ==
    [i \in 1..Len(prev) |->
        IF prev[i].id = activeTabId THEN [prev[i] EXCEPT !.nodes = ns] ELSE prev[i]]

handleEdgesChange(prev, es) ==
    [i \in 1..Len(prev) |->
        IF prev[i].id = activeTabId THEN [prev[i] EXCEPT !.edges = es] ELSE prev[i]]

handleAddNodeTabs(prev, newNode) ==
    [i \in 1..Len(prev) |->
        IF prev[i].id = activeTabId
        THEN [prev[i] EXCEPT !.nodes = Append(@, newNode)]
        ELSE prev[i]]

\* handleNodeDelete leaving the edges alone
handleNodeDeleteKeepsEdges(prev, nodeId) ==
    [i \in 1..Len(prev) |->
        IF prev[i].id = activeTabId
        THEN [prev[i] EXCEPT
                !.nodes = SelectSeq(@, LAMBDA node : node.id # nodeId)]
        ELSE prev[i]]

\* App.handleNodeDelete: the setTabs updater
handleNodeDeleteTabs(prev, nodeId) ==
    [i \in 1..Len(prev) |->
        IF prev[i].id = activeTabId
        THEN [prev[i] EXCEPT
                !.nodes = SelectSeq(@, LAMBDA node : node.id # nodeId),
                !.edges = SelectSeq(@, LAMBDA edge :
                              edge.source # nodeId /\ edge.target # nodeId)]
        ELSE prev[i]]

(***************************************************************************)
(* Canvas: render and effects                                              *)
(*                                                                         *)
(* isUpdatingFromProps and isUpdatingFromInternal are set and reset inside *)
(* one synchronous block, and the state updates of the block are rendered  *)
(* after it: every guard that reads them reads false.                      *)
(***************************************************************************)

\* the props-sync effect's guard, ignoring the undo/redo flag
PropsSyncIgnoresReplay(fromInternal, undoRedoOp) == ~fromInternal

\* the props-sync effect's guard
PropsSyncAllowed(fromInternal, undoRedoOp) == ~fromInternal /\ ~undoRedoOp

\* the debounced effects' guard
DebounceAllowed(fromProps, undoRedoOp) == ~fromProps /\ ~undoRedoOp

\* saveCurrentState's guard
SaveAllowed(fromProps, undoRedoOp) == ~fromProps /\ ~undoRedoOp

\* JSON.stringify({ nodes, edges }) held in the ref
Serialized(ns, es) == <<FlowState(ns, es)>>

\* what a handler leaves for the render that follows it:
\*   the state it set, whether the active tab's arrays changed identity
\*   (props) and whether a dependency of the debounced effects changed (deps)
Handled(ns, es, tbs, h, idx, op, sN, sE, nT, eT, props, deps) ==
    [nodes |-> ns, edges |-> es, tabs |-> tbs, history |-> h,
     currentIndex |-> idx, op |-> op, syncedN |-> sN, syncedE |-> sE,
     nodesTimer |-> nT, edgesTimer |-> eT, props |-> props, deps |-> deps]

\* the render after a handler and its effects, up to the next quiet state:
\*   the props-sync effect copies the active tab into the canvas and clears
\*   the history; the debounced effects cancel their timeouts and set new ones
Effects(h) ==
    LET sync  == h.props /\ PropsSyncAllowed(FALSE, h.op)
        tab   == ActiveTab(h.tabs)
        again == sync /\ (~h.syncedN \/ ~h.syncedE \/ h.currentIndex # 0)
        rerun == h.deps \/ again
        armed == DebounceAllowed(FALSE, h.op)
    IN  [nodes        |-> IF sync THEN tab.nodes ELSE h.nodes,
         edges        |-> IF sync THEN tab.edges ELSE h.edges,
         history      |-> IF sync THEN <<EmptyState>> ELSE h.history,
         currentIndex |-> IF sync THEN 0 ELSE h.currentIndex,
         syncedN      |-> sync \/ h.syncedN,
         syncedE      |-> sync \/ h.syncedE,
         nodesTimer   |-> IF rerun THEN armed ELSE h.nodesTimer,
         edgesTimer   |-> IF rerun THEN armed ELSE h.edgesTimer]

EdgesOf(tab) == {tab.edges[i] : i \in 1..Len(tab.edges)}

Rendered(h) ==
    LET r == Effects(h)
    IN  /\ tabs' = h.tabs
        /\ lastCut' = EdgesOf(ActiveTab(tabs)) \ EdgesOf(ActiveTab(h.tabs))
        /\ isUndoRedoOperation' = h.op
        /\ nodes' = r.nodes
        /\ edges' = r.edges
        /\ history' = r.history
        /\ currentIndex' = r.currentIndex
        /\ syncedN' = r.syncedN
        /\ syncedE' = r.syncedE
        /\ nodesTimer' = r.nodesTimer
        /\ edgesTimer' = r.edgesTimer

\* saveCurrentState, called from a debounced callback: the history, the
\* cursor and the ref it leaves
saveCurrentState ==
    LET str == Serialized(nodes, edges)
        call == SaveAllowed(FALSE, isUndoRedoOperation) /\ str # lastSavedState
        push == call /\ ~SaveSuppressed(isUndoRedoAction)
    IN  [history      |-> IF push
                          THEN SaveStateHistory(history, currentIndex,
                                                FlowState(nodes, edges))
                          ELSE history,
         currentIndex |-> IF push THEN SaveStateIndex(currentIndex)
                          ELSE currentIndex,
         lastSavedState |-> IF call THEN str ELSE lastSavedState]

storeQuiet == UNCHANGED <<tableData, schema, isLoading, stored, storeCalls,
                          lastCall, imported>>

\* the canvas has mounted over the initial tab: both debounced effects have
\* run and set their timeouts, the props-sync effect has cleared the history
CanvasInit ==
    /\ StoreIdle
    /\ tabs = InitialTabs
    /\ activeTabId = "tab-1"
    /\ reading = NoFile
    /\ nodes = <<>>
    /\ edges = <<>>
    /\ syncedN = TRUE
    /\ syncedE = TRUE
    /\ isUndoRedoOperation = FALSE
    /\ opTimers = 0
    /\ nodesTimer = DebounceAllowed(FALSE, FALSE)
    /\ edgesTimer = DebounceAllowed(FALSE, FALSE)
    /\ lastSavedState = <<>>
    /\ gestures = 0
    /\ lastGesture = "none"
    /\ lastCut = {}
    /\ burst = 0
    /\ freshTab = FALSE
    /\ applied = NotApplied
    /\ history = <<EmptyState>>
    /\ currentIndex = 0
    /\ isUndoRedoAction = FALSE
    /\ resetTimers = 0
    /\ nextSnap = 0
    /\ navCalls = 0
    /\ run = 0
    /\ lastOps = <<>>

(***************************************************************************)
(* Canvas: operations                                                      *)
(***************************************************************************)

\* a user input; the ones that read the clock read a later value each time
Gesture(handler, readsClock) ==
    /\ gestures < MaxGestures
    /\ gestures' = gestures + 1
    /\ lastGesture' = handler
    /\ burst' = IF handler \in {"dragNode", "onConnect"} THEN burst + 1 ELSE 0
    /\ freshTab' = FALSE
    /\ now' = IF readsClock THEN now + 1 ELSE now
    /\ storeQuiet
    /\ UNCHANGED <<activeTabId, reading, obsVars, fnVars>>

hookQuiet == UNCHANGED <<isUndoRedoAction, resetTimers>>

\* the user drags node i to another position: onNodesChangeInternal
dragNode(i, position) ==
    /\ i \in 1..Len(nodes)
    /\ nodes[i].position # position
    /\ Gesture("dragNode", FALSE)
    /\ Rendered(Handled([nodes EXCEPT ![i].position = position], edges, tabs,
                        history, currentIndex, isUndoRedoOperation,
                        FALSE, syncedE, nodesTimer, edgesTimer, FALSE, TRUE))
    /\ hookQuiet
    /\ UNCHANGED <<opTimers, lastSavedState>>

\* the user draws a connection the canvas accepts: onConnect
onConnect(params) ==
    /\ isValidConnection(params, nodes)
    /\ addEdge(NewEdge(params, now), edges) # edges
    /\ Gesture("onConnect", TRUE)
    /\ Rendered(Handled(nodes, addEdge(NewEdge(params, now), edges), tabs,
                        history, currentIndex, isUndoRedoOperation,
                        syncedN, FALSE, nodesTimer, edgesTimer, FALSE, TRUE))
    /\ hookQuiet
    /\ UNCHANGED <<opTimers, lastSavedState>>

\* the user picks a node type in the palette: App.handleAddNode
handleAddNode(nodeType, position) ==
    /\ Gesture("handleAddNode", TRUE)
    /\ Rendered(Handled(nodes, edges,
                        handleAddNodeTabs(tabs, createNewNode(nodeType, position, now)),
                        history, currentIndex, isUndoRedoOperation,
                        FALSE, syncedE, nodesTimer, edgesTimer, TRUE, FALSE))
    /\ hookQuiet
    /\ UNCHANGED <<opTimers, lastSavedState>>

\* a 300 ms timeout is due only after every 100 ms timeout set before it
DebounceDue == resetTimers = 0 /\ opTimers = 0

TimerStep ==
    /\ storeQuiet
    /\ hookQuiet
    /\ burst' = 0
    /\ UNCHANGED <<now, activeTabId, reading, obsVars, opTimers, gestures, lastGesture,
                   freshTab, fnVars>>

\* the nodes timeout fires and its updates are rendered
nodesTimeout ==
    /\ nodesTimer
    /\ DebounceDue
    /\ LET s == saveCurrentState
       IN  /\ Rendered(Handled(nodes, edges, handleNodesChange(tabs, nodes),
                               s.history, s.currentIndex, isUndoRedoOperation,
                               TRUE, syncedE, FALSE, edgesTimer,
                               ~syncedN, s.currentIndex # currentIndex))
           /\ lastSavedState' = s.lastSavedState
    /\ TimerStep

\* the edges timeout fires and its updates are rendered
edgesTimeout ==
    /\ edgesTimer
    /\ ~nodesTimer
    /\ DebounceDue
    /\ LET s == saveCurrentState
       IN  /\ Rendered(Handled(nodes, edges, handleEdgesChange(tabs, edges),
                               s.history, s.currentIndex, isUndoRedoOperation,
                               syncedN, TRUE, nodesTimer, FALSE,
                               ~syncedE, s.currentIndex # currentIndex))
           /\ lastSavedState' = s.lastSavedState
    /\ TimerStep

\* both timeouts fire before the next render: the second saveCurrentState
\* finds the ref the first one wrote
bothTimeouts ==
    /\ nodesTimer
    /\ edgesTimer
    /\ DebounceDue
    /\ LET s == saveCurrentState
       IN  /\ Rendered(Handled(nodes, edges,
                               handleEdgesChange(handleNodesChange(tabs, nodes), edges),
                               s.history, s.currentIndex, isUndoRedoOperation,
                               TRUE, TRUE, FALSE, FALSE,
                               ~syncedN \/ ~syncedE,
                               s.currentIndex # currentIndex))
           /\ lastSavedState' = s.lastSavedState
    /\ TimerStep

\* handleUndo and handleRedo after the hook's undo / redo moved the cursor by
\* step: getCurrentState is the one of the render the handler was made in
Replay(moved, step) ==
    LET currentState == getCurrentState
    IN  /\ isUndoRedoAction' = (moved \/ isUndoRedoAction)
        /\ resetTimers' = IF moved THEN resetTimers + 1 ELSE resetTimers
        /\ opTimers' = opTimers + 1
        /\ Rendered(Handled(currentState.nodes, currentState.edges,
                            handleEdgesChange(
                                handleNodesChange(tabs, currentState.nodes),
                                currentState.edges),
                            history,
                            IF moved THEN currentIndex + step ELSE currentIndex,
                            TRUE, TRUE, TRUE, nodesTimer, edgesTimer,
                            TRUE, TRUE))
        /\ UNCHANGED lastSavedState

\* the undo button or Ctrl+Z, enabled by canUndo
handleUndo ==
    /\ canUndo
    /\ Gesture("handleUndo", FALSE)
    /\ Replay(currentIndex > 0, -1)

\* the redo button or Ctrl+Shift+Z / Ctrl+Y, enabled by canRedo
handleRedo ==
    /\ canRedo
    /\ Gesture("handleRedo", FALSE)
    /\ Replay(currentIndex < Len(history) - 1, 1)

\* the clear-history button: clearHistory of the hook
onClearHistory ==
    /\ Gesture("onClearHistory", FALSE)
    /\ Rendered(Handled(nodes, edges, tabs, <<EmptyState>>, 0,
                        isUndoRedoOperation, syncedN, syncedE,
                        nodesTimer, edgesTimer, FALSE, currentIndex # 0))
    /\ hookQuiet
    /\ UNCHANGED <<opTimers, lastSavedState>>

\* the user deletes the selected node in the sidebar: Sidebar.handleDelete,
\* App.handleNodeDelete; the node was selected on the canvas or is still
\* shown selected after the canvas lost it
handleNodeDelete(nodeId) ==
    /\ nodeId \in NodeIds(nodes) \cup NodeIds(ActiveTab(tabs).nodes)
    /\ Gesture("handleNodeDelete", FALSE)
    /\ Rendered(Handled(nodes, edges, handleNodeDeleteTabs(tabs, nodeId),
                        history, currentIndex, isUndoRedoOperation,
                        FALSE, FALSE, nodesTimer, edgesTimer, TRUE, FALSE))
    /\ hookQuiet
    /\ UNCHANGED <<opTimers, lastSavedState>>

\* the 100 ms timeouts fire in the order they were set: the hook's first
undoRedoTimeout ==
    /\ resetTimers > 0
    /\ resetTimers = opTimers
    /\ isUndoRedoAction' = FALSE
    /\ resetTimers' = resetTimers - 1
    /\ storeQuiet
    /\ UNCHANGED <<history, currentIndex, obsVars, now, appVars, canvasVars, fnVars>>

operationTimeout ==
    /\ opTimers > resetTimers
    /\ isUndoRedoOperation' = FALSE
    /\ opTimers' = opTimers - 1
    /\ storeQuiet
    /\ UNCHANGED <<hookVars, obsVars, now, appVars, nodes, edges, syncedN,
                   syncedE, nodesTimer, edgesTimer, lastSavedState, gestures,
                   lastGesture, lastCut, burst, freshTab,
                   fnVars>>

CanvasNext ==
    \/ \E i \in 1..MaxGestures, position \in Positions : dragNode(i, position)
    \/ \E source \in NodeIds(nodes), target \in NodeIds(nodes),
          sourceHandle \in SourceHandles, targetHandle \in TargetHandles :
          onConnect(Connection(source, target, sourceHandle, targetHandle))
    \/ \E nodeType \in nodeTypes, position \in Positions :
          handleAddNode(nodeType, position)
    \/ \E nodeId \in NodeIds(nodes) \cup NodeIds(ActiveTab(tabs).nodes) :
          handleNodeDelete(nodeId)
    \/ nodesTimeout
    \/ edgesTimeout
    \/ bothTimeouts
    \/ handleUndo
    \/ handleRedo
    \/ onClearHistory
    \/ undoRedoTimeout
    \/ operationTimeout

SpecCanvas == CanvasInit /\ [][CanvasNext]_vars

(***************************************************************************)
(* Canvas: claims                                                          *)
(***************************************************************************)

\* the history was reset by clearHistory, or not touched at all
ClearedOrKept ==
    \/ UNCHANGED <<history, currentIndex>>
    \/ history' = <<EmptyState>> /\ currentIndex' = 0

C5_ReplayStep ==
    /\ handleUndo => (history' = history /\ currentIndex' = currentIndex - 1)
    /\ handleRedo => (history' = history /\ currentIndex' = currentIndex + 1)
    /\ (isUndoRedoOperation /\ ~(handleUndo \/ handleRedo \/ onClearHistory))
          => UNCHANGED <<history, currentIndex>>
    /\ (isUndoRedoAction /\ ~(handleUndo \/ handleRedo)) => ClearedOrKept
    /\ (lastGesture \in {"handleUndo", "handleRedo"} /\ gestures' = gestures)
          => UNCHANGED <<history, currentIndex>>

\* C5: an undo or a redo on the canvas, with the render and the effects that
\* follow it, leaves the log as it is and moves the cursor by exactly one:
\* applying the replayed snapshot to the canvas and notifying the parent
\* pushes nothing and resets nothing.  While the canvas's replay flag is set
\* no step other than a further undo, redo or clear-history changes the log
\* or the cursor, and while the hook's replay flag is set no step pushes an
\* entry.  After an undo or a redo, until the user acts again, no timer
\* callback changes the log or the cursor.
C5_ReplayPushesNothing == [][C5_ReplayStep]_vars

\* an undo has been replayed onto the canvas and the parent, the replay flags
\* are still set, and the user has acted on the canvas since
C5_Witness ==
    /\ isUndoRedoAction
    /\ isUndoRedoOperation
    /\ Len(history) = 2
    /\ currentIndex = 0
    /\ ActiveTab(tabs).nodes # <<>>
    /\ ~syncedN
    /\ ~nodesTimer
    /\ ~edgesTimer
    /\ gestures = 3

(***************************************************************************)
(* Canvas: claims about node deletion                                      *)
(***************************************************************************)

EndsOnNodes(tab) ==
    \A edge \in EdgesOf(tab) :
        edge.source \in NodeIds(tab.nodes) /\ edge.target \in NodeIds(tab.nodes)

\* no tab holds an edge with an endpoint that is not among its nodes
NoDanglingEdge(tbs) == \A i \in 1..Len(tbs) : EndsOnNodes(tbs[i])

C12_DeleteStep(nodeId) ==
    handleNodeDelete(nodeId) =>
        LET before == ActiveTab(tabs)
            after  == ActiveTab(tabs')
        IN  /\ nodeId \notin NodeIds(after.nodes)
            /\ \A edge \in EdgesOf(after) :
                  edge.source # nodeId /\ edge.target # nodeId
            /\ NodeIds(after.nodes) = NodeIds(before.nodes) \ {nodeId}
            /\ EdgesOf(after) =
                  {edge \in EdgesOf(before) :
                      edge.source # nodeId /\ edge.target # nodeId}

C22_ReplayAppliesMovedCursor ==
    [][ (/\ gestures' = gestures + 1
         /\ lastGesture' \in {"handleUndo", "handleRedo"}
         /\ currentIndex' # currentIndex)
        => LET s == StateAt(history', currentIndex')
           IN  /\ nodes' = s.nodes
               /\ edges' = s.edges
               /\ ActiveTab(tabs').nodes = s.nodes
               /\ ActiveTab(tabs').edges = s.edges ]_vars

\* ---- when the history is reset ----

\* C23: with one tab shown, only the Clear History button resets the log,
\* and a debounced callback that records the graph leaves the entry in the
\* log behind it: canUndo is true and the entry at the cursor is that graph.
C23_SettledMutationStaysUndoable ==
    [][ /\ (history # <<EmptyState>> /\ history' = <<EmptyState>>)
            => (gestures' = gestures + 1 /\ lastGesture' = "onClearHistory")
        /\ (lastSavedState' # lastSavedState /\ ~isUndoRedoAction)
            => (/\ currentIndex' > 0
                /\ StateAt(history', currentIndex') = FlowState(nodes, edges)) ]_vars

\* ---- one entry per burst ----

\* C24: the debounced callback that ends a burst of two or more canvas
\* changes, made outside a replay and leaving a graph other than the one
\* last recorded, adds exactly one entry to the log, and the entry holds the
\* final nodes and edges.
C24_BurstMakesOneEntry ==
    [][ (/\ burst >= 2
         /\ burst' = 0
         /\ gestures' = gestures
         /\ ~isUndoRedoOperation
         /\ Serialized(nodes, edges) # lastSavedState)
        => (/\ Len(history') = Len(history) + 1
            /\ currentIndex' = Len(history') - 1
            /\ StateAt(history', currentIndex') = FlowState(nodes, edges)) ]_vars

\* ---- adjacent entries of the log ----

\* C25: from the mount of the canvas onwards no two adjacent entries of the
\* log hold the same nodes and edges.
C25_NoAdjacentDuplicates ==
    \A i \in 1..(Len(history) - 1) : history[i] # history[i + 1]

\* ---- canvas edits and changes from outside the canvas ----

\* the entries of a list
Entries(list) == {list[i] : i \in 1..Len(list)}

\* C26: a node added from the palette while a canvas edit waits for its
\* debounced sync discards nothing: the canvas then shows every node and edge
\* it showed before, moved nodes at their new positions, and the added node.
C26_PendingEditSurvivesOutsideChange ==
    [][ (gestures' = gestures + 1 /\ lastGesture' = "handleAddNode")
        => (/\ Entries(nodes) \subseteq Entries(nodes')
            /\ Entries(edges) \subseteq Entries(edges')
            /\ Entries(ActiveTab(tabs').nodes) \ Entries(ActiveTab(tabs).nodes)
                   \subseteq Entries(nodes')) ]_vars

(***************************************************************************)
(* Tabs: App's tab handlers and the canvas they mount, switch and unmount  *)
(***************************************************************************)

\* the ids of the fixed tabs App appends to the tab bar at every render
ReservedTabIds == {"table-editor", "schema-designer", "data-import-export"}

TabIds(tbs) == {tbs[i].id : i \in 1..Len(tbs)}
TabOf(tbs, id) == CHOOSE tab \in {tbs[i] : i \in 1..Len(tbs)} : tab.id = id

\* App renders FlowCanvas: no special tab is active and activeTab is found
CanvasShown(tbs, active) == active \notin ReservedTabIds /\ active \in TabIds(tbs)

\* Date.now() has thirteen digits: `tab-${Date.now()}` is never 'tab-1'
ClockOrigin == 1000

\* handleTabCreate: the tab it builds at clock reading t
NewTab(tbs, t) ==
    FlowTab("tab-" \o ToString(ClockOrigin + t),
            "Data Pipeline " \o ToString(Len(tbs) + 1), <<>>, <<>>)

\* handleTabDelete without its two guards
TabDeleteAllowedAlways(tbs, tabId) == TRUE

\* handleTabDelete: its two guards
TabDeleteAllowed(tbs, tabId) == tabId \notin ReservedTabIds /\ Len(tbs) > 1

\* handleTabRename: its guard
TabRenameAllowed(tabId) == tabId \notin ReservedTabIds

\* the names typed into the rename box
TabNames == {"Renamed"}

\* the render after a tab handler set tabs and activeTabId, and its effects:
\*   the canvas stays as it is, follows the tab it is switched to, is
\*   unmounted (its state, timeouts and refs are gone) or is mounted anew;
\*   replaced says that the tabs' node and edge arrays are new ones
TabsRendered(tbs, active, replaced) ==
    LET was  == CanvasShown(tabs, activeTabId)
        is   == CanvasShown(tbs, active)
        sync == PropsSyncAllowed(FALSE, isUndoRedoOperation)
        tab  == TabOf(tbs, active)
    IN  /\ tabs' = tbs
        /\ activeTabId' = active
        /\ lastCut' = {}
        /\ freshTab' = IF was = is /\ (~is \/ (active = activeTabId /\ ~replaced))
                       THEN freshTab
                       ELSE is
        /\ IF was = is /\ (~is \/ (active = activeTabId /\ ~replaced))
           THEN UNCHANGED <<hookVars, nodes, edges, syncedN, syncedE,
                            isUndoRedoOperation, opTimers, nodesTimer,
                            edgesTimer, lastSavedState>>
           ELSE IF was /\ is
           THEN /\ nodes' = IF sync THEN tab.nodes ELSE nodes
                /\ edges' = IF sync THEN tab.edges ELSE edges
                /\ history' = IF sync THEN <<EmptyState>> ELSE history
                /\ currentIndex' = IF sync THEN 0 ELSE currentIndex
                /\ syncedN' = sync
                /\ syncedE' = sync
                /\ nodesTimer' = DebounceAllowed(FALSE, isUndoRedoOperation)
                /\ edgesTimer' = DebounceAllowed(FALSE, isUndoRedoOperation)
                /\ UNCHANGED <<isUndoRedoAction, resetTimers,
                               isUndoRedoOperation, opTimers, lastSavedState>>
           ELSE /\ nodes' = IF is THEN tab.nodes ELSE <<>>
                /\ edges' = IF is THEN tab.edges ELSE <<>>
                /\ history' = <<EmptyState>>
                /\ currentIndex' = 0
                /\ syncedN' = TRUE
                /\ syncedE' = TRUE
                /\ nodesTimer' = (is /\ DebounceAllowed(FALSE, FALSE))
                /\ edgesTimer' = (is /\ DebounceAllowed(FALSE, FALSE))
                /\ isUndoRedoAction' = FALSE
                /\ resetTimers' = 0
                /\ isUndoRedoOperation' = FALSE
                /\ opTimers' = 0
                /\ lastSavedState' = <<>>

\* the render after a handler of the tab bar
TabRendered(tbs, active) == TabsRendered(tbs, active, FALSE)

\* a click in the tab bar
TabRequest(handler, readsClock) ==
    /\ gestures < MaxGestures
    /\ gestures' = gestures + 1
    /\ lastGesture' = handler
    /\ burst' = 0
    /\ now' = IF readsClock THEN now + 1 ELSE now
    /\ storeQuiet
    /\ UNCHANGED <<reading, obsVars, fnVars>>

handleTabCreate ==
    /\ TabRequest("handleTabCreate", TRUE)
    /\ TabRendered(Append(tabs, NewTab(tabs, now)), NewTab(tabs, now).id)

handleTabDelete(tabId) ==
    /\ TabRequest("handleTabDelete", FALSE)
    /\ IF TabDeleteAllowed(tabs, tabId)
       THEN LET remainingTabs == SelectSeq(tabs, LAMBDA tab : tab.id # tabId)
            \* remainingTabs[0].id of an empty list throws, after setTabs
            IN  TabRendered(remainingTabs,
                            IF activeTabId = tabId /\ remainingTabs # <<>>
                            THEN remainingTabs[1].id
                            ELSE activeTabId)
       ELSE TabRendered(tabs, activeTabId)

handleTabRename(tabId, newName) ==
    /\ TabRequest("handleTabRename", FALSE)
    /\ IF TabRenameAllowed(tabId)
       THEN TabRendered([i \in 1..Len(tabs) |->
                            IF tabs[i].id = tabId
                            THEN [tabs[i] EXCEPT !.name = newName]
                            ELSE tabs[i]],
                        activeTabId)
       ELSE TabRendered(tabs, activeTabId)

handleTabSelect(tabId) ==
    /\ TabRequest("handleTabSelect", FALSE)
    /\ TabRendered(tabs, tabId)

(***************************************************************************)
(* Pure functions, applied to inputs drawn from bounded sets               *)
(***************************************************************************)

\* one application in a behaviour: everything but its record stays as
\* constructed
Apply(fn, args, result) ==
    /\ applied = NotApplied
    /\ applied' = [fn |-> fn, args |-> args, result |-> result]
    /\ UNCHANGED <<hookVars, obsVars, storeVars, appVars, canvasVars>>

FnInit == HookInit

\* ---- isValidConnection ----

\* a canvas node of a category; "" is a node without data.category
CanvasNode(id, category) == [id |-> id, category |-> category, position |-> 0]

AllNodes ==
    << CanvasNode("data-1", "Storage"), CanvasNode("process-2", "Transform"),
       CanvasNode("misc-3", "Miscellaneous"), CanvasNode("data-4", "Storage"),
       CanvasNode("process-5", "Transform"), CanvasNode("note-6", "") >>

\* the canvases a connection is validated against
Canvases == {AllNodes, SubSeq(AllNodes, 1, 3), <<>>}

\* handle ids a connection may carry; "" is null
HandleIds == {"", "output", "output-right", "input", "input-left", "top"}

applyIsValidConnection(connection, ns) ==
    Apply("isValidConnection", [connection |-> connection, nodes |-> ns],
          isValidConnection(connection, ns))

CategoryOf(ns, id) == NodeById(ns, id).category
DataLike == {"Storage", "Miscellaneous"}

\* C11: isValidConnection returns false for every self-loop, for every
\* connection with an endpoint that is not on the canvas, for every
\* Transform -> Transform pair and for every pair of Storage / Miscellaneous
\* nodes; it returns true for every connection between two distinct nodes,
\* one Transform and the other Storage or Miscellaneous, in either direction,
\* whose source handle is "output" or unspecified and whose target handle is
\* "input" or unspecified.
C11_ValidConnections ==
    applied.fn = "isValidConnection" =>
        LET c  == applied.args.connection
            ns == applied.args.nodes
            onCanvas == c.source \in NodeIds(ns) /\ c.target \in NodeIds(ns)
            from == CategoryOf(ns, c.source)
            to   == CategoryOf(ns, c.target)
        IN  /\ c.source = c.target => applied.result = FALSE
            /\ ~onCanvas => applied.result = FALSE
            /\ (onCanvas /\ from = "Transform" /\ to = "Transform")
                  => applied.result = FALSE
            /\ (onCanvas /\ from \in DataLike /\ to \in DataLike)
                  => applied.result = FALSE
            /\ ( /\ onCanvas
                 /\ c.source # c.target
                 /\ \/ from \in DataLike /\ to = "Transform"
                    \/ from = "Transform" /\ to \in DataLike
                 /\ c.sourceHandle \in {"", "output"}
                 /\ c.targetHandle \in {"", "input"} )
                  => applied.result = TRUE

\* a Miscellaneous -> Transform connection without handle ids was accepted
C11_Witness ==
    /\ applied.fn = "isValidConnection"
    /\ applied.args.connection = Connection("misc-3", "process-2", "", "")
    /\ applied.args.nodes = AllNodes
    /\ applied.result = TRUE

\* ---- loadData ----

\* the items loadData() may find under STORAGE_KEY
StoredDocuments ==
    LET tds == SavedItem.tableData
        rels == SavedItem.schema.relationships
    IN  InitialItems \cup
        { [shape |-> "unparseable"], [shape |-> "null"], [shape |-> "other"],
          \* a current document whose schema lists one table only
          [shape |-> "v2", tableData |-> tds,
           schema |-> [tables |-> <<SchemaOf(tds[1])>>, relationships |-> rels],
           lastModified |-> 1] }
        \cup { [shape |-> "tablesOnly", tableData |-> t, relationships |-> r] :
                 t \in {<<>>, tds, <<tds[2]>>, <<tds[1], NullEntry>>},
                 r \in {<<>>, <<rels>>, << <<>> >>} }
        \cup { [shape |-> "array", items |-> t] :
                 t \in {<<>>, tds, <<tds[2]>>, <<NullEntry, tds[1]>>} }

applyLoadData(item) == Apply("loadData", [item |-> item], loadData(item))

\* the tables of a list of well-formed entries
TablesOf(entries) == [i \in 1..Len(entries) |-> entries[i].schema]

\* C14: loadData() resolves, for every item it may find: to the stored
\* tableData and schema for a current document; to the stored tableData with
\* schema.tables rebuilt from its entries and the stored relationships (none
\* if there are none) for a document without schema tables; to the array as
\* tableData with rebuilt tables and no relationships for a bare array; and
\* to the empty state for a missing, unparseable or any other item, a list
\* with a null entry included.
C14_LoadDataShapes ==
    applied.fn = "loadData" =>
        LET item == applied.args.item
            out  == applied.result
            empty == [tableData |-> <<>>,
                      schema |-> [tables |-> <<>>, relationships |-> <<>>]]
        IN  /\ DOMAIN out = {"tableData", "schema"}
            /\ item.shape = "v2" =>
                  out.tableData = item.tableData /\ out.schema = item.schema
            /\ (item.shape = "tablesOnly" /\ ~HasNull(item.tableData)) =>
                  /\ out.tableData = item.tableData
                  /\ out.schema.tables = TablesOf(item.tableData)
                  /\ out.schema.relationships =
                        (IF item.relationships = <<>> THEN <<>>
                         ELSE item.relationships[1])
            /\ (item.shape = "array" /\ ~HasNull(item.items)) =>
                  /\ out.tableData = item.items
                  /\ out.schema.tables = TablesOf(item.items)
                  /\ out.schema.relationships = <<>>
            /\ item.shape \in {"missing", "unparseable", "null", "other"} =>
                  out = empty
            /\ (item.shape = "tablesOnly" /\ HasNull(item.tableData)) =>
                  out = empty
            /\ (item.shape = "array" /\ HasNull(item.items)) => out = empty

\* a document without schema tables, with relationships, was loaded
C14_Witness ==
    /\ applied.fn = "loadData"
    /\ applied.args.item.shape = "tablesOnly"
    /\ Len(applied.result.schema.tables) = 2
    /\ Len(applied.result.schema.relationships) = 2

\* ---- JSON export and import ----

\* A cell of a row: a JavaScript value by type and text
Str(text)  == [type |-> "string", text |-> text]
Num(text)  == [type |-> "number", text |-> text]
Bool(text) == [type |-> "boolean", text |-> text]
Null       == [type |-> "null", text |-> "null"]
NonFinite  == {"Infinity", "-Infinity", "NaN"}

\* JSON.parse(JSON.stringify(value)) of a cell: a number that is not finite
\* is written as null
JsonValue(value) ==
    IF value.type = "number" /\ value.text \in NonFinite THEN Null ELSE value
JsonRows(rows) ==
    LET JsonRow(row) ==
            [key \in DOMAIN row |->
                IF key = "id" THEN row[key] ELSE JsonValue(row[key])]
    IN  [i \in 1..Len(rows) |-> JsonRow(rows[i])]

\* A parsed JSON text: kind "unparseable", "null", "array" (items), "object"
\* (its keys are the fields present) or "other"; the value of a key is an
\* array, a scalar by its text, or null
Arr(items)   == [array |-> items]
Scalar(text) == [scalar |-> text]
IsArray(value)  == "array" \in DOMAIN value
IsScalar(value, text) == "scalar" \in DOMAIN value /\ value.scalar = text
Truthy(value) ==
    \/ IsArray(value)
    \/ "scalar" \in DOMAIN value /\ value.scalar \notin {"", "0", "false"}
\* json[key] || default
OrElse(json, key, default) ==
    IF key \in DOMAIN json /\ Truthy(json[key]) THEN json[key] ELSE default

\* exportToJSON writing the rows under the key rows
exportToJSONRowsKey(data, sch, flowTabs, active, t) ==
    [kind |-> "object",
     tables |-> Arr([i \in 1..Len(data) |->
                        [schema |-> data[i].schema,
                         rows |-> JsonRows(data[i].rows)]]),
     relationships |-> Arr(sch.relationships),
     flowTabs |-> Arr(flowTabs),
     activeTabId |-> Scalar(active),
     exportDate |-> Scalar(NowString(t)),
     version |-> Scalar("2.0")]

\* exportToJSON: the document in the downloaded file, as JSON.parse reads it
exportToJSON(data, sch, flowTabs, active, t) ==
    [kind |-> "object",
     tables |-> Arr([i \in 1..Len(data) |->
                        [schema |-> data[i].schema,
                         data |-> JsonRows(data[i].rows)]]),
     relationships |-> Arr(sch.relationships),
     flowTabs |-> Arr(flowTabs),
     activeTabId |-> Scalar(active),
     exportDate |-> Scalar(NowString(t)),
     version |-> Scalar("2.0")]

\* importFromJSON: what the promise resolves to, or its rejection
importFromJSON(json) ==
    IF json.kind \in {"unparseable", "null"}
    THEN [rejected |-> "Invalid JSON file"]
    ELSE IF json.kind = "object" /\ "version" \in DOMAIN json
                                 /\ IsScalar(json.version, "2.0")
    THEN [tables |-> OrElse(json, "tables", Arr(<<>>)),
          relationships |-> OrElse(json, "relationships", Arr(<<>>)),
          flowTabs |-> OrElse(json, "flowTabs", Arr(<<>>)),
          activeTabId |-> OrElse(json, "activeTabId", NullEntry),
          version |-> json.version]
    ELSE IF json.kind = "object" /\ "tables" \in DOMAIN json
                                 /\ IsArray(json.tables)
    THEN [tables |-> json.tables,
          relationships |-> OrElse(json, "relationships", Arr(<<>>)),
          flowTabs |-> Arr(<<>>),
          activeTabId |-> NullEntry,
          version |-> Scalar("1.0")]
    ELSE [tables |-> IF json.kind = "array" THEN Arr(json.items) ELSE Arr(<<>>),
          relationships |-> Arr(<<>>),
          flowTabs |-> Arr(<<>>),
          activeTabId |-> NullEntry,
          version |-> Scalar("1.0")]

\* an entry of data.tables whose schema cannot be read: table.schema.id throws
BadTable(table) == IsNull(table) \/ "schema" \notin DOMAIN table
\* an entry of data.flowTabs the node and edge counts cannot read
Uncountable(tab) ==
    IsNull(tab) \/ "nodes" \notin DOMAIN tab \/ "edges" \notin DOMAIN tab

\* DataImportExport.handleImportJSON: store, tabs and import status after the
\* handler has run on the file's parsed text, from the state before it.  A
\* state setter called before an exception has taken effect.
importJSON(json, before, t) ==
    LET data == importFromJSON(json)
        Failed(state) ==
            [tableData |-> state.tableData, schema |-> state.schema,
             tabs |-> state.tabs, activeTabId |-> state.activeTabId,
             status |-> "error"]
    IN  IF "rejected" \in DOMAIN data THEN Failed(before)
        ELSE IF ~IsArray(data.tables) THEN Failed(before)
        ELSE IF \E i \in 1..Len(data.tables.array) : BadTable(data.tables.array[i])
        THEN Failed(before)
        ELSE
        LET tables == data.tables.array
            newTableData == [i \in 1..Len(tables) |-> ImportedEntry(tables[i], t)]
            newSchema ==
                [tables |-> [i \in 1..Len(tables) |-> newTableData[i].schema],
                 relationships |-> IF IsArray(data.relationships)
                                   THEN data.relationships.array
                                   ELSE data.relationships]
            stored1 == [tableData |-> newTableData, schema |-> newSchema,
                        tabs |-> before.tabs, activeTabId |-> before.activeTabId]
        IN  IF ~IsArray(data.flowTabs)
            \* a scalar has no reduce
            THEN Failed(stored1)
            ELSE
            LET flowTabs == data.flowTabs.array
            IN  IF \E i \in 1..Len(flowTabs) : IsNull(flowTabs[i])
                \* tab.id of a null entry throws in the filter
                THEN Failed(stored1)
                ELSE
                LET Kept(tab) == ~("id" \in DOMAIN tab /\ tab.id \in ReservedTabIds)
                    importedTabs == SelectSeq(flowTabs, Kept)
                    wanted == data.activeTabId
                    stored2 ==
                        IF importedTabs = <<>> THEN stored1
                        ELSE [tableData |-> newTableData, schema |-> newSchema,
                              tabs |-> importedTabs,
                              activeTabId |->
                                  IF ~Truthy(wanted) THEN before.activeTabId
                                  ELSE IF \E i \in 1..Len(importedTabs) :
                                             /\ "id" \in DOMAIN importedTabs[i]
                                             /\ importedTabs[i].id = wanted.scalar
                                  THEN wanted.scalar
                                  ELSE importedTabs[1].id]
                IN  IF \E i \in 1..Len(flowTabs) : Uncountable(flowTabs[i])
                    THEN Failed(stored2)
                    ELSE [tableData |-> stored2.tableData, schema |-> stored2.schema,
                          tabs |-> stored2.tabs, activeTabId |-> stored2.activeTabId,
                          status |-> "success"]

\* the cells a row of the store may hold: typed in the table editor, or
\* parsed from a CSV file (parseFloat reads 1e999 as Infinity)
Cells == {Str("a"), Str(""), Num("29"), Bool("false"), Num("Infinity")}

\* store states to export: empty, and two related tables with one row
ExportStates ==
    {EmptyData} \cup
    { LET s1 == Spread(NewSchema("t1"), [position |-> GridPosition(0)])
          s2 == NewSchema("t2")
      IN  [tableData |-> << [schema |-> s1, rows |-> <<>>],
                            [schema |-> s2,
                             rows |-> << [id |-> NowString(1), c1 |-> cell] >>] >>,
           schema |-> [tables |-> <<s1, s2>>, relationships |-> rels]] :
      cell \in Cells,
      rels \in {<<>>, << Rel("r1", "t1", "t2"), Rel("r2", "t2", "t2") >>} }

\* the application before an import: nothing, or a table of its own
BeforeImport ==
    { [tableData |-> td, schema |-> [tables |-> SchemasOf(td), relationships |-> <<>>],
       tabs |-> InitialTabs, activeTabId |-> "tab-1"] :
      td \in {<<>>, << [schema |-> NewSchema("t3"), rows |-> <<>>] >>} }

\* export a store state at time t, then import the file into another session
jsonRoundTrip(state, before, t) ==
    Apply("jsonRoundTrip", [state |-> state, before |-> before],
          importJSON(exportToJSON(state.tableData, state.schema,
                                  InitialTabs, "tab-1", t),
                     before, t + 1))

\* schema.tables agree with tableData
TablesAgree(state) == state.schema.tables = TablesOf(state.tableData)
\* every cell is a value JSON can write
JsonCells(state) ==
    \A i \in 1..Len(state.tableData) :
        \A j \in 1..Len(state.tableData[i].rows) :
            LET row == state.tableData[i].rows[j]
            IN  \A key \in DOMAIN row \ {"id"} :
                    ~(row[key].type = "number" /\ row[key].text \in NonFinite)
RoundTripEqual ==
    /\ applied.result.status = "success"
    /\ applied.result.tableData = applied.args.state.tableData
    /\ applied.result.schema = applied.args.state.schema

\* C15 as stated: exporting any store state whose schema.tables agree with
\* tableData and importing the file yields equal tableData and schema.
C15_JsonRoundTripAnyState ==
    (applied.fn = "jsonRoundTrip" /\ TablesAgree(applied.args.state))
        => RoundTripEqual

\* C15 amended: exporting a store state whose schema.tables agree with
\* tableData and whose cells hold no number that is not finite, and importing
\* the file, yields equal tableData and schema (tables and relationships).
C15_JsonRoundTrip ==
    (applied.fn = "jsonRoundTrip" /\ TablesAgree(applied.args.state)
                                  /\ JsonCells(applied.args.state))
        => RoundTripEqual

\* two related tables with a number in a row replaced a table of the session
C15_Witness ==
    /\ applied.fn = "jsonRoundTrip"
    /\ applied.args.before.tableData # <<>>
    /\ Len(applied.result.tableData) = 2
    /\ applied.result.tableData[2].rows[1].c1 = Num("29")
    /\ Len(applied.result.schema.relationships) = 2

\* ---- CSV export and import ----

\* the columns of the exported table: one of each scalar type
CsvColumns ==
    LET Column(id, name, type) ==
            [id |-> id, name |-> name, type |-> type,
             required |-> FALSE, isList |-> FALSE]
    IN  << Column("c1", "name", "string"), Column("c2", "count", "number"),
           Column("c3", "active", "boolean"), Column("c4", "day", "date") >>

\* value || '': the values JavaScript takes for false
Falsy(value) ==
    value \in {Str(""), Num("0"), Num("NaN"), Bool("false"), Null}

\* exportToCSV: the header and the fields of the file, or no file at all.
\* Papa.unparse quotes a field where the format needs it, and Papa.parse
\* gives the field back as it was.
exportToCSV(table) ==
    LET columns == table.schema.columns
        rows == table.rows
        Field(row, col) ==
            IF col.id \notin DOMAIN row THEN ""
            ELSE IF Falsy(row[col.id]) THEN ""
            \* String(value), as Papa.unparse writes a field
            ELSE row[col.id].text
    IN  IF rows = <<>> THEN [exported |-> FALSE]
        ELSE [exported |-> TRUE,
              fields |-> [k \in 1..Len(columns) |-> columns[k].name],
              data |-> [i \in 1..Len(rows) |->
                           [k \in 1..Len(columns) |-> Field(rows[i], columns[k])]]]

\* the texts parseFloat reads as a number, in the form String writes them
NumericTexts == {"29", "0", "Infinity"}
\* the texts new Date reads as a day, in the form toISOString writes them
DayTexts == {"2024-01-15"}

\* new Date(value).toISOString().split('T')[0]; for a text that is no date
\* toISOString throws inside the parser's callback
toISODay(text) == IF text \in DayTexts THEN text ELSE "RangeError"

\* parseFloat(value) || 0
parseFloatOr0(text) ==
    IF text \in NumericTexts /\ ~Falsy(Num(text)) THEN Num(text) ELSE Num("0")

\* importFromCSV: the rows the promise resolves to for a file read at time t
\* against columns (date fields are days new Date can parse)
importFromCSV(file, columns, t) ==
    LET Position(name) == CHOOSE k \in 1..Len(file.fields) : file.fields[k] = name
        Has(name) == \E k \in 1..Len(file.fields) : file.fields[k] = name
        \* row[col.name] of the i-th parsed line: a text, or "" when undefined
        Raw(i, col) == IF Has(col.name) THEN file.data[i][Position(col.name)] ELSE ""
        Typed(col, value) ==
            CASE col.type = "number"  -> parseFloatOr0(value)
              [] col.type = "boolean" -> Bool(IF value \in {"true", "TRUE", "True"}
                                              THEN "true" ELSE "false")
              [] col.type = "date"    -> Str(toISODay(value))
              [] OTHER                -> Str(value)
        Keys(i) == { columns[k].id : k \in { n \in 1..Len(columns) : Raw(i, columns[n]) # "" } }
        ColumnOf(key) == columns[CHOOSE k \in 1..Len(columns) : columns[k].id = key]
        processedRow(i) ==
            [key \in Keys(i) \cup {"id"} |->
                IF key = "id"
                THEN "imported-" \o NowString(t) \o "-" \o ToString(i - 1)
                ELSE Typed(ColumnOf(key), Raw(i, ColumnOf(key)))]
        processedData == [i \in 1..Len(file.data) |-> processedRow(i)]
        MoreThanId(row) == DOMAIN row # {"id"}
    IN  SelectSeq(processedData, MoreThanId)

\* rows of the exported table: every cell absent or of its column's type
CsvTables ==
    LET CsvRowSet ==
            { [id |-> "r", c1 |-> Str("a"), c2 |-> n, c3 |-> b,
               c4 |-> Str("2024-01-15")] :
                n \in {Num("29"), Num("0")}, b \in {Bool("true"), Bool("false")} }
            \cup { [id |-> "r", c2 |-> Num("29")], [id |-> "r", c3 |-> Bool("false")] }
    IN  { [schema |-> [id |-> "t1", name |-> "n", columns |-> CsvColumns],
           rows |-> rows] :
            rows \in {<<>>} \cup { <<r>> : r \in CsvRowSet }
                            \cup { <<r1, r2>> : r1 \in CsvRowSet, r2 \in CsvRowSet } }

\* export the rows of a table, then import the file against the same columns
csvRoundTrip(table, t) ==
    LET file == exportToCSV(table)
    IN  Apply("csvRoundTrip", [table |-> table],
              IF file.exported
              THEN [exported |-> TRUE,
                    rows |-> importFromCSV(file, table.schema.columns, t)]
              ELSE [exported |-> FALSE, rows |-> <<>>])

\* the value a row holds in a column; a cell never set reads as the empty string
CellOf(row, col) == IF col.id \in DOMAIN row THEN row[col.id] ELSE Str("")

\* C16: after exporting the rows of a table to CSV and importing the file
\* against the same columns, there are as many rows as before and every row
\* holds, in every scalar column, the value it held before (row ids aside; a
\* cell that was never set counts as the empty string).
C16_CsvRoundTrip ==
    (applied.fn = "csvRoundTrip" /\ applied.result.exported) =>
        LET before == applied.args.table.rows
            after  == applied.result.rows
            columns == applied.args.table.schema.columns
        IN  /\ Len(after) = Len(before)
            /\ \A i \in 1..Len(before) : \A k \in 1..Len(columns) :
                   CellOf(after[i], columns[k]) = CellOf(before[i], columns[k])

\* ---- JSON import of malformed documents ----

\* a well-formed table entry and tab entry of a document
GoodTableEntry == [schema |-> NewSchema("t1"), data |-> <<>>]
GoodTabEntry == FlowTab("tab-9", "Imported", <<>>, <<>>)

\* documents that are unparseable, of no accepted shape, or hold a malformed
\* table or tab entry
MalformedDocs ==
    { [kind |-> "unparseable"], [kind |-> "null"], [kind |-> "other"],
      \* {} and { "tables": "x", "version": "2.0" }
      [kind |-> "object"],
      [kind |-> "object", version |-> Scalar("2.0"), tables |-> Scalar("x")],
      \* a table entry that is null, or has no schema
      [kind |-> "object", tables |-> Arr(<<GoodTableEntry, NullEntry>>)],
      [kind |-> "array", items |-> << [data |-> <<>>] >>],
      \* a tab entry that is null, or has no nodes and edges
      [kind |-> "object", version |-> Scalar("2.0"),
       tables |-> Arr(<<GoodTableEntry>>), flowTabs |-> Arr(<<NullEntry>>)],
      [kind |-> "object", version |-> Scalar("2.0"),
       tables |-> Arr(<<GoodTableEntry>>),
       flowTabs |-> Arr(<< [id |-> "tab-9", name |-> "Imported"] >>),
       activeTabId |-> Scalar("tab-9")] }

\* documents of the three accepted shapes
WellFormedDocs ==
    { [kind |-> "object", version |-> Scalar("2.0"),
       tables |-> Arr(<<GoodTableEntry>>), relationships |-> Arr(<<>>),
       flowTabs |-> Arr(<<GoodTabEntry>>), activeTabId |-> Scalar("tab-9")],
      [kind |-> "object", tables |-> Arr(<<GoodTableEntry>>)],
      [kind |-> "array", items |-> <<GoodTableEntry>>] }

applyImportJSON(json, before, t) ==
    Apply("importJSON",
          [json |-> json, before |-> before, malformed |-> json \in MalformedDocs],
          importJSON(json, before, t))

\* C17: the import of a malformed document ends with the import-failed
\* status and leaves tableData, schema, the tabs and activeTabId as they were.
C17_MalformedImportChangesNothing ==
    (applied.fn = "importJSON" /\ applied.args.malformed) =>
        /\ applied.result.status = "error"
        /\ applied.result.tableData = applied.args.before.tableData
        /\ applied.result.schema = applied.args.before.schema
        /\ applied.result.tabs = applied.args.before.tabs
        /\ applied.result.activeTabId = applied.args.before.activeTabId

\* ---- the table editor's add row ----

\* validateRowData(data, columns).isValid, for columns that are no lists
validateRowData(data, columns) ==
    \A k \in 1..Len(columns) :
        LET col == columns[k]
            present == col.id \in DOMAIN data /\ data[col.id] \notin {Str(""), Null}
            value == data[col.id]
        IN  /\ col.required => present
            /\ present =>
                 CASE col.type = "number" ->
                        \* !isNaN(Number(value))
                        \/ value.type = "number" /\ value.text # "NaN"
                        \/ value.type = "boolean"
                        \/ value.type = "string" /\ value.text \in NumericTexts
                   [] col.type = "boolean" ->
                        \/ value.type = "boolean"
                        \/ value.type = "string" /\ value.text \in {"true", "false"}
                   [] col.type = "date" ->
                        value.type = "string" /\ value.text \in DayTexts
                   [] OTHER -> TRUE

\* the table users of the example: id:string (required, unique), age:number
UsersTable ==
    LET users ==
            [id |-> "t1", name |-> "users",
             columns |->
                << [id |-> "c1", name |-> "id", type |-> "string",
                    required |-> TRUE, unique |-> TRUE, isList |-> FALSE],
                   [id |-> "c2", name |-> "age", type |-> "number",
                    required |-> FALSE, unique |-> FALSE, isList |-> FALSE] >>]
    IN  [tableData |-> << [schema |-> users, rows |-> <<>>] >>,
         schema |-> [tables |-> <<users>>, relationships |-> <<>>]]

\* what the form holds when Add is pressed
NewRows ==
    { [c1 |-> Str("u1"), c2 |-> age] : age \in {Str("29"), Num("29"), Str("abc")} }
    \cup { [c1 |-> Str("u1")], [c2 |-> Str("29")] }

\* TableEditor.handleAddRow with the table selected, then the provider's
\* addRow updater at time t
handleAddRow(prev, tableId, newRow, t) ==
    LET selectedTable == CHOOSE table \in { prev.tableData[i] : i \in 1..Len(prev.tableData) } :
                             table.schema.id = tableId
    IN  IF validateRowData(newRow, selectedTable.schema.columns)
        THEN [added |-> TRUE, tableData |-> P_addRow(prev, tableId, newRow, t).tableData]
        ELSE [added |-> FALSE, tableData |-> prev.tableData]

applyHandleAddRow(newRow, t) ==
    Apply("handleAddRow", [newRow |-> newRow],
          handleAddRow(UsersTable, "t1", newRow, t))

\* C18: a row added with the text "29" for the number column age is stored
\* with age as the number 29.
C18_NumberTextStoredAsNumber ==
    (/\ applied.fn = "handleAddRow"
     /\ "c2" \in DOMAIN applied.args.newRow
     /\ applied.args.newRow.c2 = Str("29")
     /\ applied.result.added)
        => LET rows == applied.result.tableData[1].rows
           IN  rows[Len(rows)].c2 = Num("29")

\* ---- createTable's position ----

\* the number of tables the provider may hold when a table is created
MaxTables == 4

\* the schema createTable stores for a schema given when length tables exist
applyCreateTable(tableSchema, length) ==
    Apply("createTable", [tableSchema |-> tableSchema, length |-> length],
          tableWithPosition(tableSchema, length))

\* C21: createTable keeps a position the given schema carries, and gives a
\* schema without one column n mod 3 and row floor(n / 3) of the grid, n
\* being the number of tables that exist.
C21_PositionOnlyIfAbsent ==
    applied.fn = "createTable" =>
        LET given == applied.args.tableSchema
            n == applied.args.length
        IN  IF "position" \in DOMAIN given
            THEN applied.result.position = given.position
            ELSE applied.result.position =
                     [x |-> 100 + (n % 3) * 300, y |-> 100 + (n \div 3) * 250]

\* ---- useDeleteSelection ----

\* the flows of the plain canvas: three nodes in a chain of two edges, each
\* node and each edge selected or not
FlowGraphs ==
    LET FlowNode(id, selected) == [id |-> id, type |-> "default", selected |-> selected]
        FlowEdge(source, target, selected) ==
            [id |-> "xy-edge__" \o source \o "-" \o target,
             source |-> source, target |-> target, selected |-> selected]
    IN  { [nodes |-> << FlowNode("flow_1", s1), FlowNode("res_2", s2),
                        FlowNode("flow_3", s3) >>,
           edges |-> << FlowEdge("flow_1", "res_2", e1),
                        FlowEdge("res_2", "flow_3", e2) >>] :
            s1 \in BOOLEAN, s2 \in BOOLEAN, s3 \in BOOLEAN,
            e1 \in BOOLEAN, e2 \in BOOLEAN }

\* the keydown handler for an enabled key: the edges and the nodes that are
\* not selected are set as the flow's edges and nodes
useDeleteSelection(flow) ==
    LET selectedEdges == SelectSeq(flow.edges, LAMBDA e : e.selected)
        selectedNodes == SelectSeq(flow.nodes, LAMBDA n : n.selected)
        remainingEdges ==
            SelectSeq(flow.edges,
                      LAMBDA edge : ~ \E i \in 1..Len(selectedEdges) :
                                         selectedEdges[i].id = edge.id)
        remainingNodes ==
            SelectSeq(flow.nodes,
                      LAMBDA node : ~ \E i \in 1..Len(selectedNodes) :
                                         selectedNodes[i].id = node.id)
    IN  [nodes |-> remainingNodes, edges |-> remainingEdges]

\* the Delete key pressed on the plain canvas showing flow
pressDelete(flow) ==
    Apply("useDeleteSelection", [flow |-> flow], useDeleteSelection(flow))

\* C27: after the Delete key removed the selected nodes and the selected
\* edges of a flow without dangling edges, every remaining edge has its
\* source and its target among the remaining nodes.
C27_DeleteKeyLeavesNoDanglingEdge ==
    (applied.fn = "useDeleteSelection" /\ EndsOnNodes(applied.args.flow))
        => EndsOnNodes(applied.result)

(***************************************************************************)
(* Tabs: JSON import, specification                                        *)
(***************************************************************************)

\* the files the user imports: version 2.0 documents with one table and one
\* graph tab that name the tab as the active one, name the import view (as
\* every document exported by the application does) or name none, and a
\* document of tables only
TabDocs ==
    LET doc == [kind |-> "object", version |-> Scalar("2.0"),
                tables |-> Arr(<<GoodTableEntry>>), relationships |-> Arr(<<>>),
                flowTabs |-> Arr(<<GoodTabEntry>>)]
    IN  { Spread(doc, [activeTabId |-> Scalar("tab-9")]),
          Spread(doc, [activeTabId |-> Scalar("data-import-export")]),
          doc,
          [kind |-> "object", tables |-> Arr(<<GoodTableEntry>>)] }

\* a file is chosen in the import view: handleImportJSON runs up to its
\* await of importFromJSON, whose FileReader reads the file
chooseImportFile(json) ==
    /\ activeTabId = "data-import-export"
    /\ reading = NoFile
    /\ gestures < MaxGestures
    /\ gestures' = gestures + 1
    /\ lastGesture' = "handleImportJSON"
    /\ reading' = json
    /\ storeQuiet
    /\ UNCHANGED <<tabs, activeTabId, hookVars, obsVars, now, nodes, edges,
                   syncedN, syncedE, isUndoRedoOperation, opTimers, nodesTimer,
                   edgesTimer, lastSavedState, lastCut, burst, freshTab, fnVars>>

\* the file is read: handleImportJSON runs from its await to its end with
\* the setters it captured, whichever view is shown by now
importResolved ==
    /\ reading # NoFile
    /\ LET before == [tableData |-> tableData, schema |-> schema,
                      tabs |-> tabs, activeTabId |-> activeTabId]
           result == importJSON(reading, before, now)
           flowTabs == importFromJSON(reading).flowTabs
       IN  /\ tableData' = result.tableData
           /\ schema' = result.schema
           \* setTabs was called: the documents of TabDocs hold no reserved tab
           /\ TabsRendered(result.tabs, result.activeTabId,
                           flowTabs.array # <<>> /\ result.tabs = flowTabs.array)
    /\ reading' = NoFile
    /\ imported' = TRUE
    /\ now' = now + 1
    /\ UNCHANGED <<isLoading, stored, storeCalls, lastCall, obsVars, gestures,
                   lastGesture, burst, fnVars>>

\* the tab ids a request can name: every tab of the tab bar
RequestTabIds == TabIds(tabs) \cup ReservedTabIds

TabsNext ==
    \/ handleTabCreate
    \/ \E tabId \in RequestTabIds : handleTabDelete(tabId)
    \/ \E tabId \in RequestTabIds, newName \in TabNames :
          handleTabRename(tabId, newName)
    \/ \E tabId \in RequestTabIds : handleTabSelect(tabId)
    \/ \E nodeType \in nodeTypes, position \in Positions :
          /\ CanvasShown(tabs, activeTabId)
          /\ handleAddNode(nodeType, position)
    \/ nodesTimeout
    \/ edgesTimeout
    \/ bothTimeouts
    \/ \E json \in TabDocs : chooseImportFile(json)
    \/ importResolved

SpecTabs == CanvasInit /\ [][TabsNext]_vars

(***************************************************************************)
(* Tabs: claims                                                            *)
(***************************************************************************)

C13_Step ==
    /\ \A tabId \in ReservedTabIds :
          (handleTabDelete(tabId) \/ \E newName \in TabNames :
                                        handleTabRename(tabId, newName))
             => tabs' = tabs
    /\ TabIds(tabs') \cap ReservedTabIds = {}
    /\ Len(tabs') >= 1

\* C13: a delete or rename request that names a reserved tab id leaves the
\* list of graph tabs as it is, and after every step of any sequence of tab
\* create, select, rename and delete requests (with nodes added and synced in
\* between) no graph tab has a reserved id and there is at least one graph
\* tab.
C13_ReservedTabsAndLastTab == [][C13_Step]_vars

\* a second tab was created, the first one deleted, and then the delete of
\* the only tab left was requested
C13_Witness ==
    /\ lastGesture = "handleTabDelete"
    /\ gestures = 3
    /\ Len(tabs) = 1
    /\ tabs[1].id # "tab-1"
    /\ activeTabId = tabs[1].id

\* ---- a tab switch and the undo log ----

\* C28: from the switch to a graph tab until the user's next gesture on its
\* canvas, whatever timeouts fire, canUndo is false.
C28_SwitchCreatesNoUndoableEntry == freshTab => ~canUndo

\* ---- the active tab exists ----

\* C29: whatever tabs are created, selected and deleted and whatever files
\* are imported, activeTabId is the id of a tab of the tab list or one of the
\* three reserved view ids.
C29_ActiveTabExists == activeTabId \in TabIds(tabs) \cup ReservedTabIds

(***************************************************************************)
(* Pure functions: specification                                           *)
(***************************************************************************)

FnNext ==
    \/ \E ns \in Canvases,
          source \in NodeIds(AllNodes), target \in NodeIds(AllNodes),
          sourceHandle \in HandleIds, targetHandle \in HandleIds :
          applyIsValidConnection(
              Connection(source, target, sourceHandle, targetHandle), ns)
    \/ \E item \in StoredDocuments : applyLoadData(item)
    \/ \E state \in ExportStates, before \in BeforeImport, t \in 1..MaxClock :
           jsonRoundTrip(state, before, t)
    \/ \E json \in MalformedDocs \cup WellFormedDocs, before \in BeforeImport,
             t \in 1..MaxClock :
           applyImportJSON(json, before, t)
    \/ \E table \in CsvTables, t \in 1..MaxClock : csvRoundTrip(table, t)
    \/ \E newRow \in NewRows, t \in 1..MaxClock : applyHandleAddRow(newRow, t)
    \/ \E tableSchema \in
              {NewSchema("t1"), Spread(NewSchema("t1"), [position |-> [x |-> 40, y |-> 80]])},
          length \in 0..MaxTables :
           applyCreateTable(tableSchema, length)
    \/ \E flow \in FlowGraphs : pressDelete(flow)

SpecFn == FnInit /\ [][FnNext]_vars

====
